---- MODULE Spec2Model ----
(***************************************************************************)
(* Verification model of the Sonova artist graph.                          *)
(*                                                                         *)
(*  - artistsToGraphData (src/src/utils/graphUtils.js): the degree-capped  *)
(*    two-phase link selection, stepped one candidate link at a time.      *)
(*  - useConnectionsGame (src/src/config/connectionsConfig.js): the        *)
(*    Connections game session, one action per handler.                    *)
(***************************************************************************)
EXTENDS Integers, Sequences, FiniteSets, TLC

(***************************************************************************)
(* Bounds and input domains                                                *)
(***************************************************************************)

\* Longest artist list handed to artistsToGraphData.
MaxArtists == 4

\* The degree cap of the code.
MAX_CONNECTIONS_PER_NODE == 5

\* Degree caps the builder is run with.
Caps == {1, 2, MAX_CONNECTIONS_PER_NODE}

\* Artist ids by list position.  The second list has ids with dashes, as the
\* Last.fm ids `lastfm-<name>` have, so that two different (source, target)
\* pairs can produce the same addedLinks key.
IdLists ==
  { <<"A", "B", "C", "D", "E">>,
    <<"x", "x-y", "y-z", "z", "w">> }

\* Genre lists of one artist (artist.genres || []).
GenreLists ==
  { << >>, <<"rock">>, <<"pop">>, <<"jazz">>,
    <<"rock", "pop">>,
    <<"rock", "pop", "jazz">> }

Undefined == "undefined"

\* Most guesses counted in one session (guessCount is unbounded in the code).
MaxGuesses == 3

\* Most hints taken in one session (hintCount is unbounded in the code).
MaxHints == 1

\* The attempt cap of the challenge generator's resampling loop.
MaxAttempts == 3

\* CONNECTIONS_CONFIG.challenge
minHops == 3
maxHops == 6

Null == "null"

\* A null artist reference (startArtist: null, ...): `x?.id` of it matches no id.
NullArtist == [id |-> Null, name |-> Null]

\* lastGuessResult: null
NullResult == [success |-> FALSE, type |-> Null, artist |-> NullArtist]

\* A value returned by Date.now().
Timestamp == "timestamp"

Ann == [id |-> "n1", name |-> "Ann"]
Bob == [id |-> "n2", name |-> "Bob"]
Cy  == [id |-> "n3", name |-> "Cy"]
Dee == [id |-> "n4", name |-> "Dee"]
Eve == [id |-> "n5", name |-> "Eve"]

Link(a, b) == [source |-> a.id, target |-> b.id]

\* The graph snapshots the game is played on: the path n1-n2-n3-n4, a graph
\* too small for the hop band, and the empty graph.
Graphs ==
  { [nodes |-> <<Ann, Bob, Cy, Dee>>,
     links |-> <<Link(Ann, Bob), Link(Bob, Cy), Link(Cy, Dee)>>],
    [nodes |-> <<Ann, Bob>>, links |-> <<Link(Ann, Bob)>>],
    [nodes |-> << >>, links |-> << >>] }

\* A graph in which the start of a challenge has two neighbours: the path
\* n5-n1-n2-n3-n4.
WideGraphs ==
  { [nodes |-> <<Ann, Bob, Cy, Dee, Eve>>,
     links |-> <<Link(Eve, Ann), Link(Ann, Bob), Link(Bob, Cy),
                 Link(Cy, Dee)>>] }

AllGraphs == Graphs \cup WideGraphs

\* Graphs handed to the challenge generator: those of at least two nodes,
\* a graph of two components, each of diameter 1, and a branching graph.
GenGraphs ==
  {g \in AllGraphs : Len(g.nodes) >= 2}
    \cup { [nodes |-> <<Ann, Bob, Cy, Dee>>,
            links |-> <<Link(Ann, Bob), Link(Cy, Dee)>>],
           [nodes |-> <<Ann, Bob, Cy, Dee, Eve>>,
            links |-> <<Link(Ann, Bob), Link(Bob, Cy), Link(Cy, Dee),
                        Link(Cy, Eve)>>] }

\* What the player types or clicks: ids, names as typed, an unknown name,
\* blank input and null.
GuessInputs ==
  { "n1", "n2", "n3", "n4", "n5", " Ann ", "e.v.e", "Zed", "  ", Null }

Modes == {"relaxed", "competitive"}

(***************************************************************************)
(* State                                                                   *)
(***************************************************************************)
VARIABLES
  \* ---- artistsToGraphData ----
  artists,            \* the argument: sequence of [id, genres]
  artistsGiven,       \* FALSE when the argument is missing (undefined, null)
  cap,                \* the degree cap in force
  bpc,                \* position: "start", "phase1", "phase2", "done"
  allPotentialLinks,  \* sorted candidate links
  idx,                \* index of the loop over allPotentialLinks
  parent,             \* union-find parent pointers
  connectionCount,    \* accepted links per id
  links,              \* accepted links, in acceptance order
  addedLinks,         \* keys of the links accepted in phase 1
  phase1Links,        \* number of links accepted when phase 1 ended
  nodes,              \* the returned node ids, in artist order
  \* ---- useConnectionsGame ----
  graphData,          \* the hook argument: [nodes, links]
  gameState,          \* the useState record
  rendered,           \* the session of the last render, which handlers read
  \* ---- generateChallenge ----
  gen,                \* [pc, attempts, tried, result] of one call
  \* ---- useLastFmData ----
  lastfm,             \* the username, the hook state, the cache, the loads
  \* ---- useSpotifyAuth ----
  auth                \* the hook state, the storages, the effect runs

builderVars ==
  <<artists, artistsGiven, cap, bpc, allPotentialLinks, idx, parent, connectionCount,
    links, addedLinks, phase1Links, nodes>>

gameVars == <<graphData, gameState, rendered>>

genVars == <<gen>>

hookVars == <<lastfm, auth>>

vars == <<builderVars, gameVars, genVars, hookVars>>

(***************************************************************************)
(* Sequence helpers                                                        *)
(***************************************************************************)
Range(s) == {s[i] : i \in DOMAIN s}

includes(s, e) == e \in Range(s)

RECURSIVE FlattenSeq(_)
FlattenSeq(ss) ==
  IF ss = << >> THEN << >> ELSE Head(ss) \o FlattenSeq(Tail(ss))

(***************************************************************************)
(* artistsToGraphData: pure helpers                                        *)
(***************************************************************************)

\* getSharedGenres: genres1.filter(g => genres2.includes(g))
getSharedGenres(genres1, genres2) ==
  SelectSeq(genres1, LAMBDA g : includes(genres2, g))

\* The body of the nested loops over i < j for one pair.
PairLink(as, i, j) ==
  LET sharedGenres == getSharedGenres(as[i].genres, as[j].genres)
  IN  IF Len(sharedGenres) > 0
      THEN << [source |-> as[i].id, target |-> as[j].id,
               sharedGenres |-> sharedGenres, value |-> Len(sharedGenres)] >>
      ELSE << >>

\* An enumeration whose inner loop starts at i: each artist is paired with
\* itself as well.
EnumerateLinksWithSelf(as) ==
  FlattenSeq([i \in 1..Len(as) |->
    FlattenSeq([k \in 1..(Len(as) - i + 1) |-> PairLink(as, i, i + k - 1)])])

\* All candidate links in the order the nested loops push them.
EnumerateLinks(as) ==
  FlattenSeq([i \in 1..Len(as) |->
    FlattenSeq([k \in 1..(Len(as) - i) |-> PairLink(as, i, i + k)])])

MaxValue(ls) ==
  IF ls = << >> THEN 0
  ELSE CHOOSE v \in {ls[i].value : i \in DOMAIN ls} :
         \A i \in DOMAIN ls : ls[i].value <= v

\* allPotentialLinks.sort((a, b) => b.value - a.value): Array.prototype.sort
\* is stable, so links of equal value keep their enumeration order.
SortByValueDesc(ls) ==
  LET top == MaxValue(ls)
  IN  FlattenSeq([k \in 1..top |->
        SelectSeq(ls, LAMBDA l : l.value = top + 1 - k)])

\* `${link.source}-${link.target}`
LinkKey(link) == link.source \o "-" \o link.target

\* find(x) without the side effect: the root x leads to.
RECURSIVE FindRoot(_, _)
FindRoot(p, x) ==
  IF p[x] = Undefined \/ p[x] = x THEN x ELSE FindRoot(p, p[x])

\* The ids find(x) visits.
RECURSIVE FindPath(_, _)
FindPath(p, x) ==
  IF p[x] = Undefined \/ p[x] = x THEN {x} ELSE {x} \cup FindPath(p, p[x])

\* The parent map after find(x): parent[x] is created on first use and every
\* id on the way to the root is pointed at the root (path compression).
find(p, x) ==
  LET root == FindRoot(p, x)
      path == FindPath(p, x)
  IN  [y \in DOMAIN p |-> IF y \in path THEN root ELSE p[y]]

\* A union that points x itself, not its root, at y.
unionDirect(p, x, y) ==
  LET p1 == find(p, x)
      p2 == find(p1, y)
  IN  IF FindRoot(p2, x) # FindRoot(p2, y) THEN [p2 EXCEPT ![x] = y] ELSE p2

\* The parent map after union(x, y).
union(p, x, y) ==
  LET p1 == find(p, x)
      p2 == find(p1, y)
      px == FindRoot(p2, x)
      py == FindRoot(p2, y)
  IN  IF px # py THEN [p2 EXCEPT ![px] = py] ELSE p2

\* Ids that are an endpoint of some accepted link.
connectedNodeIds(ls) ==
  {ls[i].source : i \in DOMAIN ls} \cup {ls[i].target : i \in DOMAIN ls}

ArtistIds(as) == {as[i].id : i \in DOMAIN as}

\* A room test that is content with room at one endpoint.
hasRoomEitherEndpoint(sourceCount, targetCount, c) ==
  sourceCount < c \/ targetCount < c

\* A room test that forgets the target's count.
hasRoomSourceOnly(sourceCount, targetCount, c) == sourceCount < c

\* Lines 80 and 99: both endpoints have room under the cap.
hasRoom(sourceCount, targetCount, c) ==
  sourceCount < c /\ targetCount < c

\* A phase 2 that never skips.
alreadyAddedNever(added, link) == FALSE

\* Line 93: addedLinks.has(`${link.source}-${link.target}`)
alreadyAdded(added, link) == LinkKey(link) \in added

\* A result that keeps every artist as a node.
filterNodesKeepAll(as, ls) == [i \in 1..Len(as) |-> as[i].id]

\* Lines 107-114: the ids of the artists that have at least one link.
filterNodes(as, ls) ==
  SelectSeq([i \in 1..Len(as) |-> as[i].id],
            LAMBDA id : id \in connectedNodeIds(ls))

(***************************************************************************)
(* utils/pathfinding: adjacency index, move validation, name matching      *)
(***************************************************************************)

\* buildAdjacencyList(links): node id -> set of neighbour ids.
buildAdjacencyList(ls) ==
  [id \in connectedNodeIds(ls) |->
     {ls[i].target : i \in {k \in DOMAIN ls : ls[k].source = id}}
       \cup {ls[i].source : i \in {k \in DOMAIN ls : ls[k].target = id}}]

\* adjacency.get(id), empty when the id has no entry.
Neighbours(adj, id) == IF id \in DOMAIN adj THEN adj[id] ELSE {}

\* isValidMove(adjacency, fromId, toId)
isValidMove(adj, fromId, toId) == toId \in Neighbours(adj, fromId)

\* String.prototype.trim on the inputs of GuessInputs.
trim(s) ==
  CASE s = " Ann " -> "Ann"
    [] s = "  "    -> ""
    [] OTHER       -> s

\* normalizeArtistName: case-folded, non-alphanumeric characters stripped.
normalizeArtistName(s) ==
  CASE s \in {"Ann", " Ann "}  -> "ann"
    [] s = "Bob"                 -> "bob"
    [] s = "Cy"                  -> "cy"
    [] s = "Dee"                 -> "dee"
    [] s \in {"Eve", "e.v.e"}    -> "eve"
    [] s = "Zed"                 -> "zed"
    [] s = "  "                  -> ""
    [] OTHER                     -> s

\* The ids within k hops of s.
RECURSIVE Within(_, _, _)
Within(adj, s, k) ==
  IF k = 0 THEN {s}
  ELSE LET w == Within(adj, s, k - 1)
       IN  w \cup UNION {Neighbours(adj, x) : x \in w}

\* Breadth-first distance from s to t, -1 when t is unreachable.
Distance(adj, s, t) ==
  LET n == Cardinality(DOMAIN adj)
  IN  IF t \notin Within(adj, s, n) THEN -1
      ELSE CHOOSE k \in 0..n :
             /\ t \in Within(adj, s, k)
             /\ k = 0 \/ t \notin Within(adj, s, k - 1)

\* The shortest paths from s to t, as sequences of ids.
RECURSIVE ShortestPaths(_, _, _)
ShortestPaths(adj, s, t) ==
  IF s = t THEN {<<s>>}
  ELSE LET d == Distance(adj, s, t)
       IN  UNION { {Append(p, t) : p \in ShortestPaths(adj, s, u)} :
                   u \in {v \in Neighbours(adj, t) :
                            d > 0 /\ Distance(adj, s, v) = d - 1} }

\* Challenges whose hop count is the number of nodes of the path.
ChallengesCountNodes(ns, adj, lo, hi) ==
  { [startArtist |-> ns[i], targetArtist |-> ns[j],
     optimalPath |-> p, optimalHops |-> Len(p)] :
      <<i, j, p>> \in
        { <<i, j, p>> \in
            UNION { {<<i, j, q>> : q \in ShortestPaths(adj, ns[i].id, ns[j].id)} :
                    <<i, j>> \in (DOMAIN ns) \X (DOMAIN ns) } :
            /\ Distance(adj, ns[i].id, ns[j].id) >= lo
            /\ Distance(adj, ns[i].id, ns[j].id) <= hi } }

\* The challenges generateChallenge can return for a hop band.
Challenges(ns, adj, lo, hi) ==
  { [startArtist |-> ns[i], targetArtist |-> ns[j],
     optimalPath |-> p, optimalHops |-> Len(p) - 1] :
      <<i, j, p>> \in
        { <<i, j, p>> \in
            UNION { {<<i, j, q>> : q \in ShortestPaths(adj, ns[i].id, ns[j].id)} :
                    <<i, j>> \in (DOMAIN ns) \X (DOMAIN ns) } :
            /\ Distance(adj, ns[i].id, ns[j].id) >= lo
            /\ Distance(adj, ns[i].id, ns[j].id) <= hi } }

\* generateChallenge gives up (returns null) when its sampled start nodes have
\* no target inside the band.
CanGiveUp(ns, adj, lo, hi) ==
  \E i \in DOMAIN ns :
    \A j \in DOMAIN ns :
      LET d == Distance(adj, ns[i].id, ns[j].id) IN d < lo \/ d > hi

(***************************************************************************)
(* useConnectionsGame: derived values and initial state                    *)
(***************************************************************************)

\* The useState initial value; exitGame sets the same record.
InitialGameState ==
  [ phase |-> "idle",
    mode |-> "relaxed",
    startArtist |-> NullArtist,
    targetArtist |-> NullArtist,
    optimalPath |-> << >>,
    optimalHops |-> 0,
    currentArtist |-> NullArtist,
    path |-> << >>,
    pathArtists |-> << >>,
    hops |-> 0,
    revealedArtists |-> {},
    failedGuesses |-> << >>,
    guessCount |-> 0,
    hintCount |-> 0,
    hintSelectionActive |-> FALSE,
    startTime |-> Null,
    endTime |-> Null,
    lastGuessResult |-> NullResult ]

\* useMemo(() => buildAdjacencyList(graphData.links), [graphData?.links]):
\* computed once per graph snapshot.
AdjacencyMemo == [g \in AllGraphs |-> buildAdjacencyList(g.links)]

adjacency == AdjacencyMemo[graphData]

\* generateChallenge(graphData.nodes, adjacency, CONNECTIONS_CONFIG.challenge):
\* the challenges it can return on each graph snapshot.
ChallengeMemo ==
  [g \in AllGraphs |->
     Challenges(g.nodes, buildAdjacencyList(g.links), minHops, maxHops)]

generateChallenge == ChallengeMemo[graphData]

GiveUpMemo ==
  [g \in AllGraphs |->
     CanGiveUp(g.nodes, buildAdjacencyList(g.links), minHops, maxHops)]

\* nodeMap.get(id): the node with that id, or none.
nodeMapHas(id) == \E i \in DOMAIN graphData.nodes : graphData.nodes[i].id = id

nodeMapGet(id) ==
  IF nodeMapHas(id)
  THEN graphData.nodes[CHOOSE i \in DOMAIN graphData.nodes :
                         graphData.nodes[i].id = id]
  ELSE NullArtist

\* graphData.nodes.find(n => normalizeArtistName(n.name) === normalizedGuess)
findByName(normalizedGuess) ==
  LET hits == {i \in DOMAIN graphData.nodes :
                 normalizeArtistName(graphData.nodes[i].name) = normalizedGuess}
  IN  IF hits = {} THEN NullArtist
      ELSE graphData.nodes[CHOOSE i \in hits : \A k \in hits : i <= k]

\* Lines 243-250 on the nodes ns: the node with the id rawGuess, else the
\* first node whose normalized name is the normalized guess, NullArtist when
\* there is none.
resolveIn(ns, rawGuess) ==
  LET ids == {i \in DOMAIN ns : ns[i].id = rawGuess}
      hits == {i \in DOMAIN ns :
                 normalizeArtistName(ns[i].name)
                   = normalizeArtistName(rawGuess)}
  IN  IF ids # {} THEN ns[CHOOSE i \in ids : TRUE]
      ELSE IF hits = {} THEN NullArtist
      ELSE ns[CHOOSE i \in hits : \A k \in hits : i <= k]

\* resolveIn on every graph snapshot and every trimmed input, computed once.
ResolveMemo ==
  [g \in AllGraphs |->
     [x \in {trim(y) : y \in GuessInputs} |-> resolveIn(g.nodes, x)]]

\* The artist a guess resolves to (lines 243-250), NullArtist when none.
resolveGuess(rawGuess) == ResolveMemo[graphData][rawGuess]

\* A derivation that looks at the failed guesses first.
getNodeStateFailedFirst(gs, nodeId) ==
  IF gs.phase # "playing" /\ gs.phase # "complete" THEN "normal"
  ELSE IF \E i \in DOMAIN gs.failedGuesses :
            gs.failedGuesses[i].artist.id = nodeId THEN "failed"
  ELSE IF nodeId = gs.targetArtist.id THEN "target"
  ELSE IF nodeId = gs.currentArtist.id THEN "current"
  ELSE IF nodeId = gs.startArtist.id THEN "start"
  ELSE IF includes(gs.path, nodeId) THEN "path"
  ELSE IF nodeId \in gs.revealedArtists THEN "revealed"
  ELSE "hidden"

\* getNodeState(nodeId) evaluated on a session state.
getNodeState(gs, nodeId) ==
  IF gs.phase # "playing" /\ gs.phase # "complete" THEN "normal"
  ELSE IF nodeId = gs.targetArtist.id THEN "target"
  ELSE IF nodeId = gs.currentArtist.id THEN "current"
  ELSE IF nodeId = gs.startArtist.id THEN "start"
  ELSE IF includes(gs.path, nodeId) THEN "path"
  ELSE IF \E i \in DOMAIN gs.failedGuesses :
            gs.failedGuesses[i].artist.id = nodeId THEN "failed"
  ELSE IF nodeId \in gs.revealedArtists THEN "revealed"
  ELSE "hidden"

\* No builder run is in progress.
BuilderIdle ==
  /\ artists = << >>
  /\ artistsGiven = TRUE
  /\ cap = MAX_CONNECTIONS_PER_NODE
  /\ bpc = "done"
  /\ allPotentialLinks = << >>
  /\ idx = 1
  /\ parent = << >>
  /\ connectionCount = << >>
  /\ links = << >>
  /\ addedLinks = {}
  /\ phase1Links = 0
  /\ nodes = << >>

\* No game is mounted.
GameIdle ==
  /\ graphData = [nodes |-> << >>, links |-> << >>]
  /\ gameState = InitialGameState
  /\ rendered = InitialGameState

\* generateChallenge returning null.
NullChallenge ==
  [startArtist |-> NullArtist, targetArtist |-> NullArtist,
   optimalPath |-> << >>, optimalHops |-> 0]

\* No generateChallenge call is in progress.
GenIdle ==
  gen = [pc |-> "idle", attempts |-> 0, tried |-> << >>,
         result |-> NullChallenge]

\* The Last.fm usernames.
Users == {"a", "b"}

\* The most loads started in one behaviour.
MaxLoads == 3

\* The progress callbacks one fetch makes.
MaxStage == 1

\* The polls of the processing marker that fit in the 10 s wait (scaled).
MaxWait == 2

\* The most runs of the auth effect in one behaviour.
MaxRuns == 2

\* useLastFmData after construction with no username: data is Null when it
\* is empty and otherwise the username it was fetched or cached for.
LastFmIdle ==
  [username |-> Null, mounted |-> TRUE,
   artists |-> Null, graphData |-> Null, isLoading |-> FALSE,
   error |-> Null, progress |-> Null,
   cache |-> [u \in Users |-> "none"], loads |-> << >>]

\* useSpotifyAuth after construction, before its effect has run.
AuthIdle ==
  [token |-> Null, isLoading |-> TRUE, url |-> "none",
   processing |-> FALSE, stored |-> Null,
   exchanges |-> 0, runs |-> << >>]

\* Neither hook is in use.
HooksIdle == lastfm = LastFmIdle /\ auth = AuthIdle

(***************************************************************************)
(* artistsToGraphData: steps                                               *)
(***************************************************************************)

\* The artist list with the given ids and genre lists.
MakeArtists(ids, gs) ==
  [i \in DOMAIN gs |-> [id |-> ids[i], genres |-> gs[i]]]

BuilderInit ==
  /\ \/ /\ artistsGiven = TRUE
        /\ \E n \in 0..MaxArtists, ids \in IdLists :
             \E gs \in [1..n -> GenreLists] : artists = MakeArtists(ids, gs)
     \/ /\ artistsGiven = FALSE
        /\ artists = << >>
  /\ cap \in Caps
  /\ bpc = "start"
  /\ allPotentialLinks = << >>
  /\ idx = 1
  /\ parent = << >>
  /\ connectionCount = << >>
  /\ links = << >>
  /\ addedLinks = {}
  /\ phase1Links = 0
  /\ nodes = << >>
  /\ GameIdle
  /\ GenIdle
  /\ HooksIdle

\* Lines 4-69: the early return, the candidate enumeration and the sort.
BuildCandidates ==
  /\ bpc = "start"
  /\ IF ~artistsGiven \/ Len(artists) = 0
     THEN /\ bpc' = "done"
          /\ UNCHANGED <<allPotentialLinks, parent, connectionCount>>
     ELSE /\ bpc' = "phase1"
          /\ allPotentialLinks' = SortByValueDesc(EnumerateLinks(artists))
          /\ parent' = [x \in ArtistIds(artists) |-> Undefined]
          /\ connectionCount' = [x \in ArtistIds(artists) |-> 0]
  /\ UNCHANGED <<artists, artistsGiven, cap, idx, links, addedLinks, phase1Links, nodes>>
  /\ UNCHANGED <<gameVars, genVars, hookVars>>

\* Lines 73-88: one iteration of the phase 1 loop.
Phase1Step ==
  /\ bpc = "phase1"
  /\ idx <= Len(allPotentialLinks)
  /\ LET link == allPotentialLinks[idx]
         sourceCount == connectionCount[link.source]
         targetCount == connectionCount[link.target]
         p1 == find(find(parent, link.source), link.target)
     IN  IF /\ FindRoot(parent, link.source) # FindRoot(parent, link.target)
            /\ hasRoom(sourceCount, targetCount, cap)
         THEN /\ links' = Append(links, link)
              /\ addedLinks' = addedLinks \cup {LinkKey(link)}
              /\ connectionCount' =
                   [[connectionCount EXCEPT ![link.source] = sourceCount + 1]
                      EXCEPT ![link.target] = targetCount + 1]
              /\ parent' = union(p1, link.source, link.target)
         ELSE /\ parent' = p1
              /\ UNCHANGED <<links, addedLinks, connectionCount>>
  /\ idx' = idx + 1
  /\ UNCHANGED <<artists, artistsGiven, cap, bpc, allPotentialLinks, phase1Links, nodes>>
  /\ UNCHANGED <<gameVars, genVars, hookVars>>

\* The phase 1 loop is exhausted; the phase 2 loop starts.
Phase1End ==
  /\ bpc = "phase1"
  /\ idx > Len(allPotentialLinks)
  /\ bpc' = "phase2"
  /\ idx' = 1
  /\ phase1Links' = Len(links)
  /\ UNCHANGED <<artists, artistsGiven, cap, allPotentialLinks, parent, connectionCount,
                 links, addedLinks, nodes>>
  /\ UNCHANGED <<gameVars, genVars, hookVars>>

\* Lines 91-104: one iteration of the phase 2 loop.
Phase2Step ==
  /\ bpc = "phase2"
  /\ idx <= Len(allPotentialLinks)
  /\ LET link == allPotentialLinks[idx]
         sourceCount == connectionCount[link.source]
         targetCount == connectionCount[link.target]
     IN  IF /\ ~alreadyAdded(addedLinks, link)
            /\ hasRoom(sourceCount, targetCount, cap)
         THEN /\ links' = Append(links, link)
              /\ connectionCount' =
                   [[connectionCount EXCEPT ![link.source] = sourceCount + 1]
                      EXCEPT ![link.target] = targetCount + 1]
         ELSE UNCHANGED <<links, connectionCount>>
  /\ idx' = idx + 1
  /\ UNCHANGED <<artists, artistsGiven, cap, bpc, allPotentialLinks, parent, addedLinks,
                 phase1Links, nodes>>
  /\ UNCHANGED <<gameVars, genVars, hookVars>>

\* Lines 106-120: the nodes with a link are kept, the result is returned.
Finish ==
  /\ bpc = "phase2"
  /\ idx > Len(allPotentialLinks)
  /\ bpc' = "done"
  /\ nodes' = filterNodes(artists, links)
  /\ UNCHANGED <<artists, artistsGiven, cap, allPotentialLinks, idx, parent,
                 connectionCount, links, addedLinks, phase1Links>>
  /\ UNCHANGED <<gameVars, genVars, hookVars>>

BuilderNext ==
  \/ BuildCandidates
  \/ Phase1Step
  \/ Phase1End
  \/ Phase2Step
  \/ Finish

SpecBuild == BuilderInit /\ [][BuilderNext]_vars

(***************************************************************************)
(* generateChallenge: the resampling loop, one sampled start per step      *)
(***************************************************************************)

\* For every graph and start node, the challenges of the band
\* [minHops, maxHops] that start there, computed once.
ChallengesFromMemo ==
  [g \in GenGraphs |->
     LET all == Challenges(g.nodes, buildAdjacencyList(g.links),
                           minHops, maxHops)
     IN  [i \in DOMAIN g.nodes |-> {c \in all : c.startArtist = g.nodes[i]}]]

\* The targets in the band of the breadth-first search from node i, each
\* with the path retraced to it.
ChallengesFrom(i) == ChallengesFromMemo[graphData][i]

GenInit ==
  /\ BuilderIdle
  /\ graphData \in GenGraphs
  /\ gameState = InitialGameState
  /\ rendered = InitialGameState
  /\ gen = [pc |-> "sampling", attempts |-> 0, tried |-> << >>,
            result |-> NullChallenge]
  /\ HooksIdle

\* A failed attempt that is not counted.
GenSampleNoCount ==
  /\ gen.pc = "sampling"
  /\ gen.attempts < MaxAttempts
  /\ \E i \in DOMAIN graphData.nodes :
       IF ChallengesFrom(i) = {}
       THEN gen' = gen
       ELSE \E c \in ChallengesFrom(i) :
              gen' = [pc |-> "done", attempts |-> gen.attempts + 1,
                      tried |-> Append(gen.tried, graphData.nodes[i].id),
                      result |-> c]
  /\ UNCHANGED <<builderVars, gameVars, hookVars>>

\* One attempt: a start node is sampled and searched breadth-first; a target
\* is picked among the nodes whose distance lies in the band, and the call
\* returns; with no such node the attempt is used up.
GenSample ==
  /\ gen.pc = "sampling"
  /\ gen.attempts < MaxAttempts
  /\ \E i \in DOMAIN graphData.nodes :
       IF ChallengesFrom(i) = {}
       THEN gen' = [gen EXCEPT
                      !.attempts = gen.attempts + 1,
                      !.tried = Append(gen.tried, graphData.nodes[i].id)]
       ELSE \E c \in ChallengesFrom(i) :
              gen' = [pc |-> "done", attempts |-> gen.attempts + 1,
                      tried |-> Append(gen.tried, graphData.nodes[i].id),
                      result |-> c]
  /\ UNCHANGED <<builderVars, gameVars, hookVars>>

\* The attempts are used up: the call returns null.
GenGiveUp ==
  /\ gen.pc = "sampling"
  /\ gen.attempts >= MaxAttempts
  /\ gen' = [gen EXCEPT !.pc = "done", !.result = NullChallenge]
  /\ UNCHANGED <<builderVars, gameVars, hookVars>>

GenNext ==
  \/ GenSample
  \/ GenGiveUp

\* The loop is not suspended: it runs to its return.
SpecGen == GenInit /\ [][GenNext]_vars /\ WF_vars(GenNext)

(***************************************************************************)
(* Properties of artistsToGraphData (checked under SpecBuild)              *)
(***************************************************************************)

\* The number of links of ls that id is an endpoint of.
Degree(ls, id) ==
  Cardinality({i \in DOMAIN ls : ls[i].source = id \/ ls[i].target = id})

\* The ids reachable from a over the links ls.
Component(ls, a) == Within(buildAdjacencyList(ls), a, Len(artists))

\* Scenario 1: A[rock], B[rock,pop], C[pop], D[jazz].
Scenario1 ==
  MakeArtists(<<"A", "B", "C", "D">>,
              << <<"rock">>, <<"rock", "pop">>, <<"pop">>, <<"jazz">> >>)

\* C1: at every point of the run (so after the connectivity phase, after the
\* densification phase and in the returned graph) every artist id is an
\* endpoint of at most cap accepted links, for every cap.
C1_DegreeAtMostCap ==
  /\ \A id \in ArtistIds(artists) : Degree(links, id) <= cap
  /\ \A id \in Range(nodes) : Degree(links, id) <= cap

\* A finished run under cap 2 in which some node is saturated, a candidate was
\* turned down and the densification phase accepted a link.
C1_Witness ==
  /\ bpc = "done"
  /\ cap = 2
  /\ \E id \in Range(nodes) : Degree(links, id) = cap
  /\ Len(links) < Len(allPotentialLinks)
  /\ Len(links) > phase1Links

\* C2: when the shared-genre relation connects every pair of artists, the
\* returned links connect every pair of returned nodes.
C2_NeverFragments ==
  ( /\ bpc = "done"
    /\ \A a, b \in ArtistIds(artists) :
         b \in Component(EnumerateLinks(artists), a) )
  => \A a, b \in Range(nodes) : b \in Component(links, a)

\* C3: a returned node has at least one returned link, an artist without an
\* accepted link is not returned, and scenario 1 under the code's cap returns
\* exactly A, B and C.
C3_NodesHaveLinks ==
  bpc = "done" =>
    /\ \A id \in Range(nodes) : Degree(links, id) >= 1
    /\ \A id \in ArtistIds(artists) :
         Degree(links, id) = 0 => id \notin Range(nodes)
    /\ (artists = Scenario1 /\ cap = MAX_CONNECTIONS_PER_NODE)
         => Range(nodes) = {"A", "B", "C"}

\* Scenario 1 has been built under the code's cap.
C3_Witness ==
  /\ bpc = "done"
  /\ artists = Scenario1
  /\ cap = MAX_CONNECTIONS_PER_NODE
  /\ Len(links) = 2

\* The link joins two different artists of the list that share a genre.
IsCandidate(l) ==
  \E i, j \in DOMAIN artists :
    /\ i < j
    /\ l.source = artists[i].id
    /\ l.target = artists[j].id
    /\ \E g \in Range(artists[i].genres) : g \in Range(artists[j].genres)

\* C4: every accepted link is a candidate pair with weight at least 1, no
\* unordered pair is accepted twice, and in the returned graph both endpoints
\* of every link are returned nodes.
C4_LinksAreCandidatesOnce ==
  /\ \A k \in DOMAIN links :
       /\ IsCandidate(links[k])
       /\ links[k].value >= 1
       /\ links[k].source # links[k].target
       /\ bpc = "done" =>
            links[k].source \in Range(nodes) /\ links[k].target \in Range(nodes)
  /\ \A k1, k2 \in DOMAIN links :
       k1 # k2 =>
         {links[k1].source, links[k1].target}
           # {links[k2].source, links[k2].target}

\* A finished run in which both phases accepted links.
C4_Witness ==
  /\ bpc = "done"
  /\ phase1Links >= 2
  /\ Len(links) > phase1Links

(***************************************************************************)
(* useConnectionsGame: handlers                                            *)
(*                                                                         *)
(* A handler is a closure over the rendered session (snap) and applies its *)
(* update to the session React holds (prev).  Handlers run one at a time,  *)
(* each on the session the previous one produced, so snap = prev.          *)
(***************************************************************************)

GuessResult(ok, type, artist) ==
  [success |-> ok, type |-> type, artist |-> artist]

\* Lines 189-208: the session startGame stores for a challenge.
startGameState(mode, challenge) ==
  [ phase |-> "setup",
    mode |-> mode,
    startArtist |-> challenge.startArtist,
    targetArtist |-> challenge.targetArtist,
    optimalPath |-> challenge.optimalPath,
    optimalHops |-> challenge.optimalHops,
    currentArtist |-> NullArtist,
    path |-> << >>,
    pathArtists |-> << >>,
    hops |-> 0,
    revealedArtists |-> {},
    failedGuesses |-> << >>,
    guessCount |-> 0,
    hintCount |-> 0,
    hintSelectionActive |-> FALSE,
    startTime |-> Null,
    endTime |-> Null,
    lastGuessResult |-> NullResult ]

\* A beginPlaying that reveals the start only.
beginPlayingStartOnly(prev) ==
  [prev EXCEPT
     !.phase = "playing",
     !.currentArtist = prev.startArtist,
     !.path = <<prev.startArtist.id>>,
     !.pathArtists = <<prev.startArtist>>,
     !.hops = 0,
     !.revealedArtists = {prev.startArtist.id},
     !.startTime = Timestamp]

\* Lines 215-227: the beginPlaying updater.
beginPlaying(prev) ==
  [prev EXCEPT
     !.phase = "playing",
     !.currentArtist = prev.startArtist,
     !.path = <<prev.startArtist.id>>,
     !.pathArtists = <<prev.startArtist>>,
     !.hops = 0,
     !.revealedArtists = {prev.startArtist.id, prev.targetArtist.id},
     !.startTime = Timestamp]

\* A submitGuess that accepts any resolved node outside the path without
\* asking isValidMove.
submitGuessTypeNoAdjacency(snap, guess) ==
  IF snap.phase # "playing" THEN "null"
  ELSE IF guess = Null THEN "null"
  ELSE IF trim(guess) = "" THEN "null"
  ELSE LET artist == resolveGuess(trim(guess))
       IN  IF artist = NullArtist THEN "not_found"
           ELSE IF includes(snap.path, artist.id) THEN "already_in_path"
           ELSE IF artist.id = snap.targetArtist.id
                THEN "complete" ELSE "connected"

\* An adjacency test made before the path test: a node of the path that is
\* not adjacent to the tail is taken for a wrong guess.
submitGuessTypeAdjacencyFirst(snap, guess) ==
  IF snap.phase # "playing" THEN "null"
  ELSE IF guess = Null THEN "null"
  ELSE IF trim(guess) = "" THEN "null"
  ELSE LET artist == resolveGuess(trim(guess))
       IN  IF artist = NullArtist THEN "not_found"
           ELSE IF isValidMove(adjacency, snap.currentArtist.id, artist.id)
                THEN IF includes(snap.path, artist.id) THEN "already_in_path"
                     ELSE IF artist.id = snap.targetArtist.id
                          THEN "complete" ELSE "connected"
           ELSE "not_connected"

\* A submitGuess without the test of lines 268-280 for an id on the path.
submitGuessTypeNoPathCheck(snap, guess) ==
  IF snap.phase # "playing" THEN "null"
  ELSE IF guess = Null THEN "null"
  ELSE IF trim(guess) = "" THEN "null"
  ELSE LET artist == resolveGuess(trim(guess))
       IN  IF artist = NullArtist THEN "not_found"
           ELSE IF snap.currentArtist = NullArtist THEN "throws"
           ELSE IF isValidMove(adjacency, snap.currentArtist.id, artist.id)
                THEN IF artist.id = snap.targetArtist.id
                     THEN "complete" ELSE "connected"
           ELSE "not_connected"

\* Lines 232-348: the type of the result submitGuess returns, "null" for the
\* early returns and "throws" for the TypeError of line 283, which reads
\* gameState.currentArtist.id when goBackTo stored a node the node map lacks.
submitGuessType(snap, guess) ==
  IF snap.phase # "playing" THEN "null"
  ELSE IF guess = Null THEN "null"
  ELSE IF trim(guess) = "" THEN "null"
  ELSE LET artist == resolveGuess(trim(guess))
       IN  IF artist = NullArtist THEN "not_found"
           ELSE IF includes(snap.path, artist.id) THEN "already_in_path"
           ELSE IF snap.currentArtist = NullArtist THEN "throws"
           ELSE IF isValidMove(adjacency, snap.currentArtist.id, artist.id)
                THEN IF artist.id = snap.targetArtist.id
                     THEN "complete" ELSE "connected"
           ELSE "not_connected"

\* An unresolved guess that is not counted.
notFoundUpdateNoCount(prev) ==
  [prev EXCEPT !.lastGuessResult = GuessResult(FALSE, "not_found", NullArtist)]

\* Lines 259-263: the update of a guess that resolves to no node.
notFoundUpdate(prev) ==
  [prev EXCEPT
     !.lastGuessResult = GuessResult(FALSE, "not_found", NullArtist),
     !.guessCount = prev.guessCount + 1]

\* Lines 275-278: the update of a guess that resolves to a node of the path.
alreadyInPathUpdate(prev, artist) ==
  [prev EXCEPT
     !.lastGuessResult = GuessResult(FALSE, "already_in_path", artist)]

\* A completing guess that stores no end time.
completeUpdateNoEndTime(snap, prev, artist) ==
  [prev EXCEPT
     !.phase = "complete",
     !.currentArtist = artist,
     !.path = Append(snap.path, artist.id),
     !.pathArtists = Append(snap.pathArtists, artist),
     !.hops = snap.hops + 1,
     !.revealedArtists = prev.revealedArtists \cup {artist.id},
     !.guessCount = prev.guessCount + 1,
     !.lastGuessResult = GuessResult(TRUE, "complete", artist)]

\* Lines 301-312: the update of a guess that reaches the target.
completeUpdate(snap, prev, artist) ==
  [prev EXCEPT
     !.phase = "complete",
     !.currentArtist = artist,
     !.path = Append(snap.path, artist.id),
     !.pathArtists = Append(snap.pathArtists, artist),
     !.hops = snap.hops + 1,
     !.revealedArtists = prev.revealedArtists \cup {artist.id},
     !.guessCount = prev.guessCount + 1,
     !.endTime = Timestamp,
     !.lastGuessResult = GuessResult(TRUE, "complete", artist)]

\* An accepted guess that is not revealed.
connectedUpdateNoReveal(snap, prev, artist) ==
  [prev EXCEPT
     !.currentArtist = artist,
     !.path = Append(snap.path, artist.id),
     !.pathArtists = Append(snap.pathArtists, artist),
     !.hops = snap.hops + 1,
     !.guessCount = prev.guessCount + 1,
     !.lastGuessResult = GuessResult(TRUE, "connected", artist)]

\* An accepted guess appended to the path of the latest session.
connectedUpdateFromPrev(snap, prev, artist) ==
  [prev EXCEPT
     !.currentArtist = artist,
     !.path = Append(prev.path, artist.id),
     !.pathArtists = Append(prev.pathArtists, artist),
     !.hops = prev.hops + 1,
     !.revealedArtists = prev.revealedArtists \cup {artist.id},
     !.guessCount = prev.guessCount + 1,
     !.lastGuessResult = GuessResult(TRUE, "connected", artist)]

\* Lines 314-323: the update of an accepted guess short of the target.
connectedUpdate(snap, prev, artist) ==
  [prev EXCEPT
     !.currentArtist = artist,
     !.path = Append(snap.path, artist.id),
     !.pathArtists = Append(snap.pathArtists, artist),
     !.hops = snap.hops + 1,
     !.revealedArtists = prev.revealedArtists \cup {artist.id},
     !.guessCount = prev.guessCount + 1,
     !.lastGuessResult = GuessResult(TRUE, "connected", artist)]

\* A failed guess that is revealed but not recorded.
notConnectedUpdateNoRecord(prev, artist) ==
  [prev EXCEPT
     !.revealedArtists = prev.revealedArtists \cup {artist.id},
     !.guessCount = prev.guessCount + 1,
     !.lastGuessResult = GuessResult(FALSE, "not_connected", artist)]

\* A failed guess that is not counted.
notConnectedUpdateNoCount(prev, artist) ==
  [prev EXCEPT
     !.revealedArtists = prev.revealedArtists \cup {artist.id},
     !.failedGuesses = Append(prev.failedGuesses,
        [artist |-> artist, fromArtist |-> prev.currentArtist]),
     !.lastGuessResult = GuessResult(FALSE, "not_connected", artist)]

\* Lines 336-345: the update of a guess that is not adjacent to the tail.
notConnectedUpdate(prev, artist) ==
  [prev EXCEPT
     !.revealedArtists = prev.revealedArtists \cup {artist.id},
     !.failedGuesses = Append(prev.failedGuesses,
        [artist |-> artist, fromArtist |-> prev.currentArtist]),
     !.guessCount = prev.guessCount + 1,
     !.lastGuessResult = GuessResult(FALSE, "not_connected", artist)]

\* Lines 232-348: the session after submitGuess.
submitGuess(snap, prev, guess) ==
  LET type == submitGuessType(snap, guess)
      artist == resolveGuess(trim(guess))
  IN  CASE type = "null" -> prev
        [] type = "throws" -> prev
        [] type = "not_found" -> notFoundUpdate(prev)
        [] type = "already_in_path" -> alreadyInPathUpdate(prev, artist)
        [] type = "complete" -> completeUpdate(snap, prev, artist)
        [] type = "connected" -> connectedUpdate(snap, prev, artist)
        [] type = "not_connected" -> notConnectedUpdate(prev, artist)

\* gameState.path.indexOf(artistId), 1-based, 0 when absent.
indexOf(path, id) ==
  IF includes(path, id)
  THEN CHOOSE i \in DOMAIN path :
         path[i] = id /\ \A k \in DOMAIN path : path[k] = id => i <= k
  ELSE 0

\* A goBackTo without the phase test of line 353.
goBackToValidAnyPhase(snap, artistId) ==
  /\ indexOf(snap.path, artistId) # 0
  /\ indexOf(snap.path, artistId) # Len(snap.path)

\* Lines 353-360: whether goBackTo goes on to change the session.
goBackToValid(snap, artistId) ==
  /\ snap.phase = "playing"
  /\ indexOf(snap.path, artistId) # 0
  /\ indexOf(snap.path, artistId) # Len(snap.path)

\* A goBackTo that keeps one element too many.
goBackToOffByOne(snap, prev, artistId) ==
  IF ~goBackToValid(snap, artistId) THEN prev
  ELSE LET index == indexOf(snap.path, artistId)
           newPath == SubSeq(snap.path, 1, index + 1)
       IN  [prev EXCEPT
              !.currentArtist = nodeMapGet(artistId),
              !.path = newPath,
              !.pathArtists = SubSeq(snap.pathArtists, 1, index + 1),
              !.hops = Len(newPath) - 1,
              !.lastGuessResult = NullResult]

\* A goBackTo that also takes back the guesses of the hops it removes.
goBackToUndoGuesses(snap, prev, artistId) ==
  IF ~goBackToValid(snap, artistId) THEN prev
  ELSE LET index == indexOf(snap.path, artistId)
           newPath == SubSeq(snap.path, 1, index)
       IN  [prev EXCEPT
              !.currentArtist = nodeMapGet(artistId),
              !.path = newPath,
              !.pathArtists = SubSeq(snap.pathArtists, 1, index),
              !.hops = Len(newPath) - 1,
              !.guessCount = prev.guessCount - (Len(snap.path) - index),
              !.lastGuessResult = NullResult]

\* A goBackTo that leaves currentArtist as it was.
goBackToKeepsCurrent(snap, prev, artistId) ==
  IF ~goBackToValid(snap, artistId) THEN prev
  ELSE LET index == indexOf(snap.path, artistId)
           newPath == SubSeq(snap.path, 1, index)
       IN  [prev EXCEPT
              !.path = newPath,
              !.pathArtists = SubSeq(snap.pathArtists, 1, index),
              !.hops = Len(newPath) - 1,
              !.lastGuessResult = NullResult]

\* A goBackTo that leaves hops as it was.
goBackToKeepsHops(snap, prev, artistId) ==
  IF ~goBackToValid(snap, artistId) THEN prev
  ELSE LET index == indexOf(snap.path, artistId)
       IN  [prev EXCEPT
              !.currentArtist = nodeMapGet(artistId),
              !.path = SubSeq(snap.path, 1, index),
              !.pathArtists = SubSeq(snap.pathArtists, 1, index),
              !.lastGuessResult = NullResult]

\* Lines 352-376: the session after goBackTo.
goBackTo(snap, prev, artistId) ==
  IF ~goBackToValid(snap, artistId) THEN prev
  ELSE LET index == indexOf(snap.path, artistId)
           newPath == SubSeq(snap.path, 1, index)
       IN  [prev EXCEPT
              !.currentArtist = nodeMapGet(artistId),
              !.path = newPath,
              !.pathArtists = SubSeq(snap.pathArtists, 1, index),
              !.hops = Len(newPath) - 1,
              !.lastGuessResult = NullResult]

\* Line 419: some node of the graph is hidden.
hasHidden(snap) ==
  \E i \in DOMAIN graphData.nodes :
    getNodeState(snap, graphData.nodes[i].id) = "hidden"

\* Lines 415-439: what beginHintSelection returns.
beginHintSelectionReturn(snap) ==
  /\ snap.phase = "playing"
  /\ Len(graphData.nodes) # 0
  /\ hasHidden(snap)

\* A beginHintSelection that does not look for a hidden node.
beginHintSelectionAlways(snap, prev) ==
  IF snap.phase # "playing" \/ Len(graphData.nodes) = 0 THEN prev
  ELSE [prev EXCEPT !.hintSelectionActive = TRUE]

\* Lines 415-439: the session after beginHintSelection.
beginHintSelection(snap, prev) ==
  IF snap.phase # "playing" \/ Len(graphData.nodes) = 0 THEN prev
  ELSE IF ~hasHidden(snap)
       THEN [prev EXCEPT
               !.lastGuessResult = GuessResult(FALSE, "no_hidden", NullArtist)]
       ELSE [prev EXCEPT !.hintSelectionActive = TRUE]

\* A revealHintNode that takes any node of the graph.
revealHintNodeTypeAnyNode(snap, nodeId) ==
  IF snap.phase # "playing" \/ ~snap.hintSelectionActive THEN "null"
  ELSE IF ~nodeMapHas(nodeId) THEN "null"
  ELSE "hint"

\* Lines 448-490: the type of the result revealHintNode returns.
revealHintNodeType(snap, nodeId) ==
  IF snap.phase # "playing" \/ ~snap.hintSelectionActive THEN "null"
  ELSE IF ~nodeMapHas(nodeId) THEN "null"
  ELSE IF getNodeState(snap, nodeId) # "hidden" THEN "hint_invalid"
  ELSE "hint"

\* A revealHintNode that leaves hint selection on.
revealHintNodeKeepsSelecting(snap, prev, nodeId) ==
  LET type == revealHintNodeType(snap, nodeId)
  IN  CASE type = "null" -> prev
        [] type = "hint_invalid" ->
             [prev EXCEPT
                !.lastGuessResult = GuessResult(FALSE, type, NullArtist)]
        [] type = "hint" ->
             [prev EXCEPT
                !.revealedArtists = prev.revealedArtists \cup {nodeId},
                !.hintCount = prev.hintCount + 1,
                !.lastGuessResult =
                   GuessResult(TRUE, type, nodeMapGet(nodeId))]

\* Lines 448-490: the session after revealHintNode.
revealHintNode(snap, prev, nodeId) ==
  LET type == revealHintNodeType(snap, nodeId)
  IN  CASE type = "null" -> prev
        [] type = "hint_invalid" ->
             [prev EXCEPT
                !.lastGuessResult = GuessResult(FALSE, type, NullArtist)]
        [] type = "hint" ->
             [prev EXCEPT
                !.revealedArtists = prev.revealedArtists \cup {nodeId},
                !.hintCount = prev.hintCount + 1,
                !.hintSelectionActive = FALSE,
                !.lastGuessResult =
                   GuessResult(TRUE, type, nodeMapGet(nodeId))]

\* A startGame that drops the session when no challenge is found.
startGameResetsOnFailure(prev, mode) ==
  IF Len(graphData.nodes) < 2 THEN {<<InitialGameState, "false">>}
  ELSE {<<startGameState(mode, challenge), "true">> :
          challenge \in generateChallenge}
       \cup (IF GiveUpMemo[graphData]
             THEN {<<InitialGameState, "false">>} ELSE {})

\* Lines 166-211: the sessions startGame can leave and what it returns then.
startGame(prev, mode) ==
  IF Len(graphData.nodes) < 2 THEN {<<prev, "false">>}
  ELSE {<<startGameState(mode, challenge), "true">> :
          challenge \in generateChallenge}
       \cup (IF GiveUpMemo[graphData] THEN {<<prev, "false">>} ELSE {})

\* startGame(mode)
StartGame ==
  /\ \E mode \in Modes :
       \E out \in startGame(gameState, mode) :
         gameState' = out[1]
  /\ UNCHANGED <<builderVars, graphData, rendered, genVars, hookVars>>

\* beginPlaying(), lines 214-228: the updater reads prev.startArtist.id and
\* throws a TypeError when no challenge is stored.
BeginPlaying ==
  /\ IF gameState.startArtist = NullArtist
     THEN gameState' = gameState
     ELSE gameState' = beginPlaying(gameState)
  /\ UNCHANGED <<builderVars, graphData, rendered, genVars, hookVars>>

\* A guess that is counted adds 1 to guessCount.
Counted(type) ==
  type \in {"not_found", "complete", "connected", "not_connected"}

\* submitGuess(artistNameOrId), lines 231-349.
SubmitGuess(guess) ==
  /\ Counted(submitGuessType(gameState, guess))
       => gameState.guessCount < MaxGuesses
  /\ gameState' = submitGuess(gameState, gameState, guess)
  /\ UNCHANGED <<builderVars, graphData, rendered, genVars, hookVars>>

\* goBackTo(artistId), lines 352-376.
GoBackTo(artistId) ==
  /\ gameState' = goBackTo(gameState, gameState, artistId)
  /\ UNCHANGED <<builderVars, graphData, rendered, genVars, hookVars>>

\* An exitGame that keeps the mode of the session.
exitGameKeepsMode(prev) == [InitialGameState EXCEPT !.mode = prev.mode]

\* An exitGame that leaves hint selection as it is.
exitGameKeepsHintSelection(prev) ==
  [InitialGameState EXCEPT !.hintSelectionActive = prev.hintSelectionActive]

\* Lines 380-399: the session exitGame stores.
exitGame(prev) == InitialGameState

\* exitGame(), lines 379-400.
ExitGame ==
  /\ gameState' = exitGame(gameState)
  /\ UNCHANGED <<builderVars, graphData, rendered, genVars, hookVars>>

\* newChallenge(), lines 403-405: startGame(gameState.mode), result dropped.
NewChallenge ==
  /\ \E out \in startGame(gameState, gameState.mode) :
       gameState' = out[1]
  /\ UNCHANGED <<builderVars, graphData, rendered, genVars, hookVars>>

\* clearFeedback(), lines 408-413.
ClearFeedback ==
  /\ gameState' = [gameState EXCEPT !.lastGuessResult = NullResult]
  /\ UNCHANGED <<builderVars, graphData, rendered, genVars, hookVars>>

\* beginHintSelection(), lines 415-439.
BeginHintSelection ==
  /\ gameState' = beginHintSelection(gameState, gameState)
  /\ UNCHANGED <<builderVars, graphData, rendered, genVars, hookVars>>

\* cancelHintSelection(), lines 441-446.
CancelHintSelection ==
  /\ gameState' = [gameState EXCEPT !.hintSelectionActive = FALSE]
  /\ UNCHANGED <<builderVars, graphData, rendered, genVars, hookVars>>

\* revealHintNode(nodeId), lines 448-491.
RevealHintNode(nodeId) ==
  /\ revealHintNodeType(gameState, nodeId) = "hint"
       => gameState.hintCount < MaxHints
  /\ gameState' = revealHintNode(gameState, gameState, nodeId)
  /\ UNCHANGED <<builderVars, graphData, rendered, genVars, hookVars>>

\* Ids handed to goBackTo and revealHintNode: the node ids and a foreign id.
ClickIds == {"n1", "n2", "n3", "n4", "n5", "n9"}

GameInit ==
  /\ BuilderIdle
  /\ GenIdle
  /\ HooksIdle
  /\ graphData \in Graphs
  /\ gameState = InitialGameState
  /\ rendered = InitialGameState

GameNext ==
  \/ StartGame
  \/ BeginPlaying
  \/ \E guess \in GuessInputs : SubmitGuess(guess)
  \/ \E artistId \in ClickIds : GoBackTo(artistId)
  \/ ExitGame
  \/ NewChallenge
  \/ ClearFeedback
  \/ BeginHintSelection
  \/ CancelHintSelection
  \/ \E nodeId \in ClickIds : RevealHintNode(nodeId)

Spec == GameInit /\ [][GameNext]_vars

\* The hook is rendered with another graph: adjacency and nodeMap are
\* recomputed (lines 73-76, 111-114), the session is the useState value and
\* stays.
ReplaceGraph ==
  /\ graphData' \in Graphs \ {graphData}
  /\ UNCHANGED <<builderVars, gameState, rendered, genVars, hookVars>>

ReplaceNext ==
  \/ GameNext
  \/ ReplaceGraph

\* The game while the graph it is played on is reloaded.
SpecReplace == GameInit /\ [][ReplaceNext]_vars

\* The game mounted on a graph of WideGraphs.
WideInit ==
  /\ BuilderIdle
  /\ GenIdle
  /\ HooksIdle
  /\ graphData \in WideGraphs
  /\ gameState = InitialGameState
  /\ rendered = InitialGameState

\* One challenge played by guessing and going back.
WideNext ==
  \/ StartGame
  \/ BeginPlaying
  \/ \E guess \in GuessInputs : SubmitGuess(guess)
  \/ \E artistId \in ClickIds : GoBackTo(artistId)

SpecWide == WideInit /\ [][WideNext]_vars

\* submitGuess created by the render that saw the session rendered (the
\* useCallback of lines 231-349 closes over gameState), called when the
\* stored session is gameState.
StaleSubmitGuess(guess) ==
  /\ Counted(submitGuessType(rendered, guess))
       => gameState.guessCount < MaxGuesses
  /\ gameState' = submitGuess(rendered, gameState, guess)
  /\ UNCHANGED <<builderVars, graphData, rendered, genVars, hookVars>>

\* The hook renders again: the handlers are created anew over the stored
\* session.
Render ==
  /\ rendered # gameState
  /\ rendered' = gameState
  /\ UNCHANGED <<builderVars, graphData, gameState, genVars, hookVars>>

\* The effect of the game screen: startGame('relaxed') when the rendered
\* session is idle and the graph has nodes.
ScreenStart ==
  /\ rendered.phase = "idle"
  /\ gameState.phase = "idle"
  /\ Len(graphData.nodes) # 0
  /\ \E out \in startGame(gameState, "relaxed") :
       gameState' = out[1]
  /\ UNCHANGED <<builderVars, graphData, rendered, genVars, hookVars>>

\* The start button of the setup screen, shown when the rendered session is
\* in setup.
ScreenBegin ==
  /\ rendered.phase = "setup"
  /\ BeginPlaying

StaleNext ==
  \/ ScreenStart
  \/ ScreenBegin
  \/ \E guess \in GuessInputs : StaleSubmitGuess(guess)
  \/ Render

\* The game when handler calls may come before the next render.
SpecStale == WideInit /\ [][StaleNext]_vars

(***************************************************************************)
(* useLastFmData: the effect on username and the loads it starts           *)
(***************************************************************************)

\* A load just started by the effect for username u.
NewLoad(u, showLoader) ==
  [user |-> u, showLoader |-> showLoader, cleanedUp |-> FALSE,
   cancelled |-> FALSE, stage |-> 0, pc |-> "fetching"]

\* readCache: null without an entry, else the entry and its freshness.
readCache(lf, u) == IF u = Null THEN "none" ELSE lf.cache[u]

\* writeCache: the entry of u is saved with the current time.
writeCache(lf, u) == [lf EXCEPT !.cache[u] = "fresh"]

\* React has cleaned up the effects of the earlier usernames; with the
\* cleanup function of the effect, their cancelled flags are set.
cleanedUp(lf, withFlag) ==
  [lf EXCEPT !.loads =
     [i \in DOMAIN lf.loads |->
        [lf.loads[i] EXCEPT !.cleanedUp = TRUE,
                            !.cancelled = @ \/ withFlag]]]

\* The effect of the caching hook run for username u.
cachedEffect(lf, u) ==
  IF u = Null
  THEN [lf EXCEPT !.username = u, !.artists = Null, !.graphData = Null,
                  !.isLoading = FALSE, !.error = Null, !.progress = Null]
  ELSE LET cached == readCache(lf, u)
           shown ==
             IF cached # "none"
             THEN [lf EXCEPT !.username = u, !.artists = u,
                             !.graphData = u, !.isLoading = FALSE,
                             !.error = Null, !.progress = Null]
             ELSE [lf EXCEPT !.username = u, !.artists = Null,
                             !.graphData = Null]
           showLoader == cached = "none"
       IN  IF cached # "fresh"
           THEN [shown EXCEPT
                   !.isLoading = showLoader, !.error = Null,
                   !.progress = IF showLoader THEN u ELSE Null,
                   !.loads = Append(@, NewLoad(u, showLoader))]
           ELSE shown

\* The username prop changes: cleanup of the old effect, then the new one.
SetUsername(u) ==
  /\ lastfm.mounted
  /\ u # lastfm.username
  /\ Len(lastfm.loads) < MaxLoads
  /\ lastfm' = cachedEffect(cleanedUp(lastfm, TRUE), u)
  /\ UNCHANGED <<builderVars, gameVars, genVars, auth>>

\* The component unmounts: the cleanup of the current effect runs.
Unmount ==
  /\ lastfm.mounted
  /\ lastfm' = [cleanedUp(lastfm, TRUE) EXCEPT !.mounted = FALSE]
  /\ UNCHANGED <<builderVars, gameVars, genVars, auth>>

\* The fetch of load i reports progress.
Progress(i) ==
  /\ lastfm.loads[i].pc = "fetching"
  /\ lastfm.loads[i].stage < MaxStage
  /\ LET load == lastfm.loads[i]
         told == IF ~load.cancelled /\ load.showLoader
                 THEN [lastfm EXCEPT !.progress = load.user]
                 ELSE lastfm
     IN  lastfm' = [told EXCEPT !.loads[i].stage = @ + 1]
  /\ UNCHANGED <<builderVars, gameVars, genVars, auth>>

\* The fetch of load i resolves.
ResolveOk(i) ==
  /\ lastfm.loads[i].pc = "fetching"
  /\ LET load == lastfm.loads[i]
         over == [lastfm EXCEPT !.loads[i].pc = "done"]
     IN  lastfm' =
           IF load.cancelled
           THEN over
           ELSE [writeCache(over, load.user) EXCEPT
                   !.artists = load.user, !.graphData = load.user,
                   !.isLoading = FALSE,
                   !.progress = IF load.showLoader THEN Null ELSE @]
  /\ UNCHANGED <<builderVars, gameVars, genVars, auth>>

\* The fetch of load i rejects.
ResolveErr(i) ==
  /\ lastfm.loads[i].pc = "fetching"
  /\ LET load == lastfm.loads[i]
         over == [lastfm EXCEPT !.loads[i].pc = "done"]
     IN  lastfm' =
           IF load.cancelled
           THEN over
           ELSE [over EXCEPT
                   !.error = load.user, !.isLoading = FALSE,
                   !.progress = IF load.showLoader THEN Null ELSE @]
  /\ UNCHANGED <<builderVars, gameVars, genVars, auth>>

\* The cache entry of u becomes older than CACHE_TTL_MS.
CacheAges(u) ==
  /\ lastfm.cache[u] = "fresh"
  /\ lastfm' = [lastfm EXCEPT !.cache[u] = "stale"]
  /\ UNCHANGED <<builderVars, gameVars, genVars, auth>>

\* The hook is mounted without a username; localStorage holds any cache.
LastFmInit ==
  /\ BuilderIdle
  /\ GameIdle
  /\ GenIdle
  /\ auth = AuthIdle
  /\ \E c \in [Users -> {"none", "stale", "fresh"}] :
       lastfm = [LastFmIdle EXCEPT !.cache = c]

LastFmNext ==
  \/ \E u \in Users \cup {Null} : SetUsername(u)
  \/ Unmount
  \/ \E i \in DOMAIN lastfm.loads : Progress(i)
  \/ \E i \in DOMAIN lastfm.loads : ResolveOk(i)
  \/ \E i \in DOMAIN lastfm.loads : ResolveErr(i)
  \/ \E u \in Users : CacheAges(u)

SpecLastFm == LastFmInit /\ [][LastFmNext]_vars

\* The effect of the hook without cache run for username u.
plainEffect(lf, u) ==
  IF u = Null
  THEN [lf EXCEPT !.username = u, !.artists = Null, !.graphData = Null]
  ELSE [lf EXCEPT !.username = u, !.isLoading = TRUE, !.error = Null,
                  !.progress = u, !.loads = Append(@, NewLoad(u, TRUE))]

\* The username prop changes: the effect has no cleanup function.
PlainSetUsername(u) ==
  /\ lastfm.mounted
  /\ u # lastfm.username
  /\ Len(lastfm.loads) < MaxLoads
  /\ lastfm' = plainEffect(cleanedUp(lastfm, FALSE), u)
  /\ UNCHANGED <<builderVars, gameVars, genVars, auth>>

\* The component unmounts; React drops the state of the hook.
PlainUnmount ==
  /\ lastfm.mounted
  /\ lastfm' = [cleanedUp(lastfm, FALSE) EXCEPT !.mounted = FALSE]
  /\ UNCHANGED <<builderVars, gameVars, genVars, auth>>

\* The fetch of load i resolves.
PlainResolveOk(i) ==
  /\ lastfm.loads[i].pc = "fetching"
  /\ LET load == lastfm.loads[i]
         over == [lastfm EXCEPT !.loads[i].pc = "done"]
     IN  lastfm' =
           IF ~lastfm.mounted
           THEN over
           ELSE [over EXCEPT
                   !.artists = load.user, !.graphData = load.user,
                   !.isLoading = FALSE, !.progress = Null]
  /\ UNCHANGED <<builderVars, gameVars, genVars, auth>>

\* The fetch of load i rejects.
PlainResolveErr(i) ==
  /\ lastfm.loads[i].pc = "fetching"
  /\ LET load == lastfm.loads[i]
         over == [lastfm EXCEPT !.loads[i].pc = "done"]
     IN  lastfm' =
           IF ~lastfm.mounted
           THEN over
           ELSE [over EXCEPT
                   !.error = load.user, !.isLoading = FALSE,
                   !.progress = Null]
  /\ UNCHANGED <<builderVars, gameVars, genVars, auth>>

\* The hook is mounted without a username.
PlainInit ==
  /\ BuilderIdle
  /\ GameIdle
  /\ GenIdle
  /\ auth = AuthIdle
  /\ lastfm = LastFmIdle

PlainNext ==
  \/ \E u \in Users \cup {Null} : PlainSetUsername(u)
  \/ PlainUnmount
  \/ \E i \in DOMAIN lastfm.loads : PlainResolveOk(i)
  \/ \E i \in DOMAIN lastfm.loads : PlainResolveErr(i)

SpecLastFmPlain == PlainInit /\ [][PlainNext]_vars

(***************************************************************************)
(* useSpotifyAuth: the runs of the auth effect                             *)
(***************************************************************************)

\* A run of handleAuth at its first await or at its return; storedToken and
\* existingToken are its local constants.
NewRun(pc, storedToken) ==
  [pc |-> pc, cancelled |-> FALSE, waited |-> 0,
   storedToken |-> storedToken, existingToken |-> Null]

\* handleAuth that does not look at the processing marker.
startHandleAuthNoMarker(au) ==
  IF au.url = "error"
  THEN [au EXCEPT !.url = "none", !.isLoading = FALSE,
                  !.runs = Append(@, NewRun("done", Null))]
  ELSE IF au.url = "code"
  THEN [au EXCEPT !.processing = TRUE, !.exchanges = @ + 1,
                  !.runs = Append(@, NewRun("exchanging", Null))]
  ELSE IF au.stored # Null
  THEN [au EXCEPT !.runs = Append(@, NewRun("validating", au.stored))]
  ELSE [au EXCEPT !.isLoading = FALSE,
                  !.runs = Append(@, NewRun("done", Null))]

\* handleAuth from its call to its first await.
startHandleAuth(au) ==
  IF au.url = "error"
  THEN [au EXCEPT !.url = "none", !.isLoading = FALSE,
                  !.runs = Append(@, NewRun("done", Null))]
  ELSE IF au.url = "code"
  THEN IF au.processing
       THEN [au EXCEPT !.runs = Append(@, NewRun("waiting", Null))]
       ELSE [au EXCEPT !.processing = TRUE, !.exchanges = @ + 1,
                       !.runs = Append(@, NewRun("exchanging", Null))]
  ELSE IF au.stored # Null
  THEN [au EXCEPT !.runs = Append(@, NewRun("validating", au.stored))]
  ELSE [au EXCEPT !.isLoading = FALSE,
                  !.runs = Append(@, NewRun("done", Null))]

\* The effect has run and has not been cleaned up.
AuthMounted ==
  /\ auth.runs # << >>
  /\ ~auth.runs[Len(auth.runs)].cancelled

\* The effect runs: on mount, and again after a cleanup.
AuthMount ==
  /\ ~AuthMounted
  /\ Len(auth.runs) < MaxRuns
  /\ auth' = startHandleAuth(auth)
  /\ UNCHANGED <<builderVars, gameVars, genVars, lastfm>>

\* The cleanup of the effect.
AuthCleanup ==
  /\ AuthMounted
  /\ auth' = [auth EXCEPT !.runs[Len(auth.runs)].cancelled = TRUE]
  /\ UNCHANGED <<builderVars, gameVars, genVars, lastfm>>

\* exchangeCodeForToken resolves for run i.
ExchangeOk(i) ==
  /\ i \in DOMAIN auth.runs
  /\ auth.runs[i].pc = "exchanging"
  /\ LET live == ~auth.runs[i].cancelled
     IN  auth' = [auth EXCEPT
                    !.stored = "new", !.url = "none",
                    !.token = IF live THEN "new" ELSE @,
                    !.processing = FALSE,
                    !.isLoading = IF live THEN FALSE ELSE @,
                    !.runs[i].pc = "done"]
  /\ UNCHANGED <<builderVars, gameVars, genVars, lastfm>>

\* exchangeCodeForToken rejects for run i.
ExchangeFail(i) ==
  /\ i \in DOMAIN auth.runs
  /\ auth.runs[i].pc = "exchanging"
  /\ LET live == ~auth.runs[i].cancelled
     IN  auth' = [auth EXCEPT
                    !.url = "none", !.processing = FALSE,
                    !.isLoading = IF live THEN FALSE ELSE @,
                    !.runs[i].pc = "done"]
  /\ UNCHANGED <<builderVars, gameVars, genVars, lastfm>>

\* The 50 ms timer of the waiting run i fires and the loop test is made.
Poll(i) ==
  /\ i \in DOMAIN auth.runs
  /\ auth.runs[i].pc = "waiting"
  /\ LET waited == auth.runs[i].waited + 1
     IN  auth' =
           IF auth.processing /\ waited < MaxWait
           THEN [auth EXCEPT !.runs[i].waited = waited]
           ELSE IF auth.runs[i].cancelled
           THEN [auth EXCEPT !.runs[i].waited = waited,
                             !.runs[i].pc = "done"]
           ELSE [auth EXCEPT !.runs[i].waited = waited,
                             !.runs[i].pc = "done",
                             !.runs[i].existingToken = auth.stored,
                             !.token = IF auth.stored # Null
                                       THEN auth.stored ELSE @,
                             !.isLoading = FALSE]
  /\ UNCHANGED <<builderVars, gameVars, genVars, lastfm>>

\* validateToken resolves for run i.
Validate(i, isValid) ==
  /\ i \in DOMAIN auth.runs
  /\ auth.runs[i].pc = "validating"
  /\ auth' =
       IF auth.runs[i].cancelled
       THEN [auth EXCEPT !.runs[i].pc = "done"]
       ELSE [auth EXCEPT
               !.token = IF isValid THEN auth.runs[i].storedToken ELSE @,
               !.stored = IF isValid THEN @ ELSE Null,
               !.isLoading = FALSE,
               !.runs[i].pc = "done"]
  /\ UNCHANGED <<builderVars, gameVars, genVars, lastfm>>

\* The page is loaded with or without an OAuth callback in its URL and with
\* or without a token of an earlier visit; no marker is left over.
AuthInit ==
  /\ BuilderIdle
  /\ GameIdle
  /\ GenIdle
  /\ lastfm = LastFmIdle
  /\ \E url \in {"code", "error", "none"}, stored \in {Null, "old"} :
       auth = [AuthIdle EXCEPT !.url = url, !.stored = stored]

AuthNext ==
  \/ AuthMount
  \/ AuthCleanup
  \/ \E i \in 1..MaxRuns : ExchangeOk(i)
  \/ \E i \in 1..MaxRuns : ExchangeFail(i)
  \/ \E i \in 1..MaxRuns : Poll(i)
  \/ \E i \in 1..MaxRuns, isValid \in BOOLEAN : Validate(i, isValid)

\* Timers fire; the exchange and the validation may never settle.
SpecAuth ==
  /\ AuthInit
  /\ [][AuthNext]_vars
  /\ \A i \in 1..MaxRuns : WF_vars(Poll(i))

(***************************************************************************)
(* Properties of the game session (checked under Spec)                     *)
(***************************************************************************)

Last(seq) == seq[Len(seq)]

\* The guess is a non-blank string that resolves to a node outside the path.
ResolvesOffPath(guess) ==
  /\ guess # Null
  /\ trim(guess) # ""
  /\ resolveGuess(trim(guess)) # NullArtist
  /\ ~includes(gameState.path, resolveGuess(trim(guess)).id)

\* Some revealed node is neither on the path, nor the start or the target,
\* nor a failed guess: with no hint taken it was on the path and a goBackTo
\* took it off.
SteppedBack ==
  /\ gameState.phase = "playing"
  /\ gameState.hintCount = 0
  /\ \E x \in gameState.revealedArtists :
       getNodeState(gameState, x) = "revealed"

\* C6: every two consecutive ids of path are neighbours in the adjacency
\* index, in every state the handlers can reach.
C6_PathIsAdjacent ==
  \A i \in 1..(Len(gameState.path) - 1) :
    gameState.path[i + 1] \in Neighbours(adjacency, gameState.path[i])

\* A path of two hops whose last hop was accepted when three guesses, none of
\* them a failed one, had been counted: one guess went elsewhere.
C6_Witness ==
  /\ gameState.phase = "playing"
  /\ Len(gameState.path) = 3
  /\ gameState.lastGuessResult.type = "connected"
  /\ gameState.guessCount = 3
  /\ gameState.failedGuesses = << >>

\* C7: a goBackTo(nodeId) that succeeds leaves the prefix of the old path
\* that ends at nodeId: not longer than before, tail nodeId, currentArtist
\* that node, hops one less than the new length.
C7_GoBackToTruncates ==
  [][ \A artistId \in ClickIds :
        (goBackToValid(gameState, artistId) /\ GoBackTo(artistId)) =>
          LET old == gameState.path
              new == gameState'.path
          IN  /\ Len(new) >= 1
              /\ Len(new) <= Len(old)
              /\ new = SubSeq(old, 1, Len(new))
              /\ Last(new) = artistId
              /\ gameState'.currentArtist = nodeMapGet(artistId)
              /\ gameState'.currentArtist.id = artistId
              /\ gameState'.hops = Len(new) - 1 ]_vars

\* The session right after going back from a path of two hops to its middle.
C7_Witness ==
  /\ SteppedBack
  /\ gameState.lastGuessResult = NullResult
  /\ Len(gameState.path) = 2
  /\ gameState.hops = 1

\* C8: goBackTo never changes guessCount, hintCount, revealedArtists,
\* failedGuesses, the challenge or the phase; called with an id that is not in
\* path or is the tail it returns false and changes nothing at all.
C8_GoBackToFrame ==
  [][ \A artistId \in ClickIds :
        GoBackTo(artistId) =>
          /\ gameState'.guessCount = gameState.guessCount
          /\ gameState'.hintCount = gameState.hintCount
          /\ gameState'.revealedArtists = gameState.revealedArtists
          /\ gameState'.failedGuesses = gameState.failedGuesses
          /\ gameState'.startArtist = gameState.startArtist
          /\ gameState'.targetArtist = gameState.targetArtist
          /\ gameState'.optimalPath = gameState.optimalPath
          /\ gameState'.optimalHops = gameState.optimalHops
          /\ gameState'.phase = gameState.phase
          /\ ( \/ ~includes(gameState.path, artistId)
               \/ Last(gameState.path) = artistId )
               => /\ ~goBackToValid(gameState, artistId)
                  /\ gameState' = gameState ]_vars

\* The session right after going back, with counted guesses, a failed guess
\* and a hint-free revealed set to keep.
C8_Witness ==
  /\ SteppedBack
  /\ gameState.lastGuessResult = NullResult
  /\ gameState.guessCount >= 3
  /\ Len(gameState.failedGuesses) >= 1

\* C9: in phase playing a guess that resolves to a node outside the path and
\* adjacent to the tail appends the node, reveals it and adds 1 to guessCount
\* and to hops; the phase becomes complete, with endTime recorded, exactly
\* when the node is the target, and stays playing otherwise.
C9_AcceptedGuess ==
  [][ \A guess \in GuessInputs :
        ( /\ gameState.phase = "playing"
          /\ ResolvesOffPath(guess)
          /\ resolveGuess(trim(guess)).id
               \in Neighbours(adjacency, Last(gameState.path))
          /\ SubmitGuess(guess) ) =>
          LET artist == resolveGuess(trim(guess))
              isTarget == artist.id = gameState.targetArtist.id
          IN  /\ gameState'.path = Append(gameState.path, artist.id)
              /\ gameState'.revealedArtists =
                   gameState.revealedArtists \cup {artist.id}
              /\ gameState'.guessCount = gameState.guessCount + 1
              /\ gameState'.hops = gameState.hops + 1
              /\ gameState'.phase = "complete" <=> isTarget
              /\ isTarget => gameState'.endTime = Timestamp
              /\ ~isTarget => /\ gameState'.phase = "playing"
                              /\ gameState'.endTime = gameState.endTime ]_vars

\* A session completed by a guess of the target, after an accepted guess of
\* a node that is not the target.
C9_Witness ==
  /\ gameState.phase = "complete"
  /\ gameState.lastGuessResult.type = "complete"
  /\ Last(gameState.path) = gameState.targetArtist.id
  /\ gameState.hops = 3
  /\ gameState.endTime = Timestamp

\* C10: in phase playing a guess that resolves to a node outside the path and
\* not adjacent to the tail returns not_connected, adds 1 to guessCount,
\* reveals the node, appends {artist, fromArtist = the tail} to failedGuesses
\* and leaves path, hops, currentArtist and phase as they were.
C10_RejectedGuess ==
  [][ \A guess \in GuessInputs :
        ( /\ gameState.phase = "playing"
          /\ ResolvesOffPath(guess)
          /\ resolveGuess(trim(guess)).id
               \notin Neighbours(adjacency, Last(gameState.path))
          /\ SubmitGuess(guess) ) =>
          LET artist == resolveGuess(trim(guess))
          IN  /\ submitGuessType(gameState, guess) = "not_connected"
              /\ gameState'.lastGuessResult.type = "not_connected"
              /\ gameState'.guessCount = gameState.guessCount + 1
              /\ gameState'.revealedArtists =
                   gameState.revealedArtists \cup {artist.id}
              /\ gameState'.failedGuesses =
                   Append(gameState.failedGuesses,
                          [artist |-> artist,
                           fromArtist |-> nodeMapGet(Last(gameState.path))])
              /\ gameState'.path = gameState.path
              /\ gameState'.pathArtists = gameState.pathArtists
              /\ gameState'.hops = gameState.hops
              /\ gameState'.currentArtist = gameState.currentArtist
              /\ gameState'.phase = "playing" ]_vars

\* The session right after a guess, made one hop in, of a node that is not
\* adjacent to the tail.
C10_Witness ==
  /\ gameState.phase = "playing"
  /\ gameState.lastGuessResult.type = "not_connected"
  /\ Len(gameState.path) = 2
  /\ Len(gameState.failedGuesses) >= 1
  /\ Last(gameState.failedGuesses).fromArtist.id = Last(gameState.path)
  /\ Last(gameState.failedGuesses).artist.id \notin
       Neighbours(adjacency, Last(gameState.path))

\* The guess is a non-blank string that resolves to no node.
Unresolved(guess) ==
  /\ guess # Null
  /\ trim(guess) # ""
  /\ resolveGuess(trim(guess)) = NullArtist

\* C11: in phase playing a non-blank guess that matches no node id and no
\* normalized node name returns not_found, adds exactly 1 to guessCount and
\* leaves path, hops, revealedArtists, failedGuesses and phase as they were.
C11_NotFoundGuess ==
  [][ \A guess \in GuessInputs :
        ( /\ gameState.phase = "playing"
          /\ Unresolved(guess)
          /\ SubmitGuess(guess) ) =>
          /\ submitGuessType(gameState, guess) = "not_found"
          /\ gameState'.lastGuessResult.type = "not_found"
          /\ gameState'.guessCount = gameState.guessCount + 1
          /\ gameState'.path = gameState.path
          /\ gameState'.pathArtists = gameState.pathArtists
          /\ gameState'.hops = gameState.hops
          /\ gameState'.revealedArtists = gameState.revealedArtists
          /\ gameState'.failedGuesses = gameState.failedGuesses
          /\ gameState'.phase = "playing" ]_vars

\* The session right after an unresolved guess made one hop in, an earlier
\* guess having failed.
C11_Witness ==
  /\ gameState.phase = "playing"
  /\ gameState.lastGuessResult.type = "not_found"
  /\ gameState.guessCount = 3
  /\ Len(gameState.path) = 2
  /\ Len(gameState.failedGuesses) = 1

\* The guess is a non-blank string that resolves to a node of the path.
ResolvesOnPath(guess) ==
  /\ guess # Null
  /\ trim(guess) # ""
  /\ resolveGuess(trim(guess)) # NullArtist
  /\ includes(gameState.path, resolveGuess(trim(guess)).id)

\* C12: in phase playing a guess that resolves, by id or by name, to a node
\* already in path returns already_in_path and leaves guessCount, path, hops,
\* revealedArtists, failedGuesses and phase as they were, whether or not the
\* node is adjacent to the tail: it is never recorded as a failed guess.
C12_AlreadyInPath ==
  [][ \A guess \in GuessInputs :
        ( /\ gameState.phase = "playing"
          /\ ResolvesOnPath(guess)
          /\ SubmitGuess(guess) ) =>
          /\ submitGuessType(gameState, guess) = "already_in_path"
          /\ gameState'.lastGuessResult.type = "already_in_path"
          /\ gameState'.guessCount = gameState.guessCount
          /\ gameState'.path = gameState.path
          /\ gameState'.pathArtists = gameState.pathArtists
          /\ gameState'.hops = gameState.hops
          /\ gameState'.currentArtist = gameState.currentArtist
          /\ gameState'.revealedArtists = gameState.revealedArtists
          /\ gameState'.failedGuesses = gameState.failedGuesses
          /\ gameState'.phase = "playing" ]_vars

\* The session right after a guess of the start, two hops in: the start is in
\* the path and is not adjacent to the tail.
C12_Witness ==
  /\ gameState.phase = "playing"
  /\ gameState.lastGuessResult.type = "already_in_path"
  /\ Len(gameState.path) = 3
  /\ gameState.lastGuessResult.artist.id = gameState.path[1]
  /\ gameState.path[1] \notin Neighbours(adjacency, Last(gameState.path))
  /\ gameState.failedGuesses = << >>

(***************************************************************************)
(* Properties of a wrong guess on a wide graph (checked under SpecWide)    *)
(***************************************************************************)

\* The guess resolves to a node that is adjacent to the first node of a
\* two-node path and not to its second node.
BesideStartOnly(guess) ==
  /\ Len(gameState.path) = 2
  /\ resolveGuess(trim(guess)).id
       \in Neighbours(adjacency, gameState.path[1])
  /\ resolveGuess(trim(guess)).id
       \notin Neighbours(adjacency, gameState.path[2])

\* C13: a submitGuess that returns not_connected leaves path as it was and
\* makes the guessed node's display state 'failed', unless the guessed node
\* is the target, whose display state stays 'target'; with path = [A,B] a
\* guess of a node adjacent to A and not to B is such a guess and its node
\* becomes 'failed'.
C13_FailedNodeState ==
  [][ \A guess \in GuessInputs :
        ( /\ gameState.phase = "playing"
          /\ ResolvesOffPath(guess)
          /\ submitGuessType(gameState, guess) = "not_connected"
          /\ SubmitGuess(guess) ) =>
          LET artist == resolveGuess(trim(guess))
          IN  /\ gameState'.path = gameState.path
              /\ getNodeState(gameState', artist.id) =
                   IF artist.id = gameState.targetArtist.id
                   THEN "target" ELSE "failed"
              /\ BesideStartOnly(guess) =>
                   getNodeState(gameState', artist.id) = "failed" ]_vars

\* C13 as stated: a submitGuess that returns not_connected leaves path as it
\* was and makes the guessed node's display state 'failed'.
C13_AsStated ==
  [][ \A guess \in GuessInputs :
        ( /\ gameState.phase = "playing"
          /\ ResolvesOffPath(guess)
          /\ submitGuessType(gameState, guess) = "not_connected"
          /\ SubmitGuess(guess) ) =>
          /\ gameState'.path = gameState.path
          /\ getNodeState(gameState', resolveGuess(trim(guess)).id)
               = "failed" ]_vars

\* The session right after a guess, made from path = [A,B], of the node that
\* is adjacent to A and not to B.
C13_Witness ==
  /\ gameState.phase = "playing"
  /\ gameState.lastGuessResult.type = "not_connected"
  /\ Len(gameState.path) = 2
  /\ gameState.lastGuessResult.artist.id
       \in Neighbours(adjacency, gameState.path[1])
  /\ gameState.lastGuessResult.artist.id
       \notin Neighbours(adjacency, gameState.path[2])
  /\ getNodeState(gameState, gameState.lastGuessResult.artist.id) = "failed"

(***************************************************************************)
(* Properties of the phases, the hints and the display states              *)
(* (checked under Spec)                                                    *)
(***************************************************************************)

\* C14: startGame returns false and leaves the whole session as it was when
\* the graph has fewer than 2 nodes or generateChallenge returns null; when a
\* challenge is returned it stores phase setup, the mode asked for, that
\* challenge, an empty path, an empty revealed set, no failed guess,
\* guessCount 0, hintCount 0 and hintSelectionActive false.
C14_StartGame ==
  \A mode \in Modes :
    \A out \in startGame(gameState, mode) :
      /\ out[2] \in {"true", "false"}
      /\ (Len(graphData.nodes) < 2 \/ generateChallenge = {})
           => out[2] = "false"
      /\ out[2] = "false" => out[1] = gameState
      /\ out[2] = "true" =>
           /\ out[1].phase = "setup"
           /\ out[1].mode = mode
           /\ \E challenge \in generateChallenge :
                /\ out[1].startArtist = challenge.startArtist
                /\ out[1].targetArtist = challenge.targetArtist
                /\ out[1].optimalPath = challenge.optimalPath
                /\ out[1].optimalHops = challenge.optimalHops
           /\ out[1].path = << >>
           /\ out[1].pathArtists = << >>
           /\ out[1].currentArtist = NullArtist
           /\ out[1].hops = 0
           /\ out[1].revealedArtists = {}
           /\ out[1].failedGuesses = << >>
           /\ out[1].guessCount = 0
           /\ out[1].hintCount = 0
           /\ out[1].hintSelectionActive = FALSE
           /\ out[1].lastGuessResult = NullResult

\* A played session, with a failed guess and a hint taken, from which
\* startGame can both store a new challenge and return false.
C14_Witness ==
  /\ gameState.phase = "playing"
  /\ gameState.mode = "competitive"
  /\ Len(gameState.failedGuesses) >= 1
  /\ gameState.hintCount = 1
  /\ \E out \in startGame(gameState, "relaxed") : out[2] = "true"
  /\ \E out \in startGame(gameState, "relaxed") : out[2] = "false"

\* C15: beginPlaying called in phase setup yields phase playing with
\* path = [start], currentArtist = start, hops 0, revealedArtists =
\* {start, target} and startTime recorded; guessCount, hintCount and
\* failedGuesses keep their reset values and the challenge is kept.
C15_BeginPlaying ==
  [][ (gameState.phase = "setup" /\ BeginPlaying) =>
        /\ gameState'.phase = "playing"
        /\ gameState'.path = <<gameState.startArtist.id>>
        /\ gameState'.pathArtists = <<gameState.startArtist>>
        /\ gameState'.currentArtist = gameState.startArtist
        /\ gameState'.hops = 0
        /\ gameState'.revealedArtists =
             {gameState.startArtist.id, gameState.targetArtist.id}
        /\ gameState'.startTime = Timestamp
        /\ gameState'.guessCount = 0
        /\ gameState'.hintCount = 0
        /\ gameState'.failedGuesses = << >>
        /\ gameState'.hintSelectionActive = FALSE
        /\ gameState'.startArtist = gameState.startArtist
        /\ gameState'.targetArtist = gameState.targetArtist
        /\ gameState'.optimalPath = gameState.optimalPath
        /\ gameState'.mode = gameState.mode ]_vars

\* The session right after beginPlaying in phase setup.
C15_Witness ==
  /\ gameState.phase = "playing"
  /\ gameState.mode = "competitive"
  /\ gameState.startArtist # NullArtist
  /\ gameState.path = <<gameState.startArtist.id>>
  /\ gameState.revealedArtists =
       {gameState.startArtist.id, gameState.targetArtist.id}
  /\ Cardinality(gameState.revealedArtists) = 2
  /\ gameState.startTime = Timestamp
  /\ gameState.guessCount = 0
  /\ gameState.hintCount = 0
  /\ gameState.lastGuessResult = NullResult

\* C16: in phase complete, submitGuess, goBackTo, beginPlaying,
\* beginHintSelection, revealHintNode, cancelHintSelection and clearFeedback
\* leave phase = complete and path as it was; exitGame leads to idle and
\* newChallenge to setup in the same mode (or nowhere, when no challenge
\* is found).
C16_CompleteIsTerminal ==
  [][ gameState.phase = "complete" =>
        /\ ( \/ \E guess \in GuessInputs : SubmitGuess(guess)
             \/ \E artistId \in ClickIds : GoBackTo(artistId)
             \/ BeginPlaying
             \/ BeginHintSelection
             \/ \E nodeId \in ClickIds : RevealHintNode(nodeId)
             \/ CancelHintSelection
             \/ ClearFeedback )
             => /\ gameState'.phase = "complete"
                /\ gameState'.path = gameState.path
        /\ ExitGame => gameState'.phase = "idle"
        /\ NewChallenge =>
             \/ gameState' = gameState
             \/ /\ gameState'.phase = "setup"
                /\ gameState'.mode = gameState.mode ]_vars

\* C17: in phase playing, beginHintSelection returns false and leaves phase,
\* path, revealedArtists, failedGuesses, guessCount, hintCount and
\* hintSelectionActive as they were when no node of the graph is 'hidden';
\* otherwise it returns true and sets hintSelectionActive, nothing else.
C17_BeginHintSelection ==
  [][ (gameState.phase = "playing" /\ BeginHintSelection) =>
        IF \A i \in DOMAIN graphData.nodes :
             getNodeState(gameState, graphData.nodes[i].id) # "hidden"
        THEN /\ ~beginHintSelectionReturn(gameState)
             /\ gameState'.phase = gameState.phase
             /\ gameState'.path = gameState.path
             /\ gameState'.revealedArtists = gameState.revealedArtists
             /\ gameState'.failedGuesses = gameState.failedGuesses
             /\ gameState'.guessCount = gameState.guessCount
             /\ gameState'.hintCount = gameState.hintCount
             /\ gameState'.hintSelectionActive = gameState.hintSelectionActive
        ELSE /\ beginHintSelectionReturn(gameState)
             /\ gameState' = [gameState EXCEPT !.hintSelectionActive = TRUE]
    ]_vars

\* The session right after a beginHintSelection that found every node
\* visible, hint selection having been switched on before the last nodes were
\* revealed.
C17_Witness ==
  /\ gameState.phase = "playing"
  /\ gameState.lastGuessResult.type = "no_hidden"
  /\ gameState.hintSelectionActive
  /\ Len(graphData.nodes) = 4
  /\ gameState.revealedArtists = {"n1", "n2", "n3", "n4"}

\* C18: revealHintNode(nodeId) succeeds only when phase is playing, hint
\* selection is active and the display state of nodeId is 'hidden'; a call
\* that succeeds adds exactly nodeId to revealedArtists, adds exactly 1 to
\* hintCount, switches hint selection off and leaves path, hops, guessCount,
\* failedGuesses and phase as they were.
C18_RevealHintNode ==
  [][ \A nodeId \in ClickIds :
        ( /\ revealHintNodeType(gameState, nodeId) = "hint"
          /\ RevealHintNode(nodeId) ) =>
          /\ gameState.phase = "playing"
          /\ gameState.hintSelectionActive
          /\ getNodeState(gameState, nodeId) = "hidden"
          /\ nodeId \notin gameState.revealedArtists
          /\ gameState'.revealedArtists =
               gameState.revealedArtists \cup {nodeId}
          /\ gameState'.hintCount = gameState.hintCount + 1
          /\ gameState'.hintSelectionActive = FALSE
          /\ gameState'.lastGuessResult.type = "hint"
          /\ gameState'.path = gameState.path
          /\ gameState'.hops = gameState.hops
          /\ gameState'.guessCount = gameState.guessCount
          /\ gameState'.failedGuesses = gameState.failedGuesses
          /\ gameState'.phase = "playing" ]_vars

\* The session right after a hint, taken one hop in: the hinted node is
\* 'revealed' and hint selection is off.
C18_Witness ==
  /\ gameState.phase = "playing"
  /\ gameState.lastGuessResult.type = "hint"
  /\ gameState.hintCount = 1
  /\ ~gameState.hintSelectionActive
  /\ Len(gameState.path) = 2
  /\ getNodeState(gameState, gameState.lastGuessResult.artist.id) = "revealed"

\* C19: in phase playing with hint selection active, revealHintNode of a
\* node whose display state is not 'hidden' returns hint_invalid and leaves
\* revealedArtists, hintCount, hintSelectionActive, path, guessCount,
\* failedGuesses and phase as they were.
C19_HintInvalid ==
  [][ \A nodeId \in ClickIds :
        ( /\ gameState.phase = "playing"
          /\ gameState.hintSelectionActive
          /\ nodeMapHas(nodeId)
          /\ getNodeState(gameState, nodeId) # "hidden"
          /\ RevealHintNode(nodeId) ) =>
          /\ revealHintNodeType(gameState, nodeId) = "hint_invalid"
          /\ gameState'.lastGuessResult.type = "hint_invalid"
          /\ gameState'.revealedArtists = gameState.revealedArtists
          /\ gameState'.hintCount = gameState.hintCount
          /\ gameState'.hintSelectionActive = gameState.hintSelectionActive
          /\ gameState'.path = gameState.path
          /\ gameState'.hops = gameState.hops
          /\ gameState'.guessCount = gameState.guessCount
          /\ gameState'.failedGuesses = gameState.failedGuesses
          /\ gameState'.phase = gameState.phase ]_vars

\* The session right after a refused hint, a failed guess having been made:
\* hint selection is still on.
C19_Witness ==
  /\ gameState.phase = "playing"
  /\ gameState.lastGuessResult.type = "hint_invalid"
  /\ gameState.hintSelectionActive
  /\ gameState.hintCount = 0
  /\ Len(gameState.failedGuesses) = 1

\* The node was guessed and turned down at some point of the session.
IsFailed(nodeId) ==
  \E i \in DOMAIN gameState.failedGuesses :
    gameState.failedGuesses[i].artist.id = nodeId

\* C20: in phases playing and complete the display state of an id is the
\* first case that matches in the order target, current, start, path, failed,
\* revealed, hidden; in phases idle and setup it is 'normal' for every id.
C20_DisplayStateOrder ==
  \A nodeId \in ClickIds :
    LET state == getNodeState(gameState, nodeId)
        isTarget == nodeId = gameState.targetArtist.id
        isCurrent == nodeId = gameState.currentArtist.id
        isStart == nodeId = gameState.startArtist.id
        inPath == includes(gameState.path, nodeId)
        isRevealed == nodeId \in gameState.revealedArtists
    IN  IF gameState.phase \in {"idle", "setup"} THEN state = "normal"
        ELSE /\ gameState.phase \in {"playing", "complete"}
             /\ state = "target" <=> isTarget
             /\ state = "current" <=> ~isTarget /\ isCurrent
             /\ state = "start" <=> ~isTarget /\ ~isCurrent /\ isStart
             /\ state = "path" <=>
                  ~isTarget /\ ~isCurrent /\ ~isStart /\ inPath
             /\ state = "failed" <=>
                  /\ ~isTarget /\ ~isCurrent /\ ~isStart /\ ~inPath
                  /\ IsFailed(nodeId)
             /\ state = "revealed" <=>
                  /\ ~isTarget /\ ~isCurrent /\ ~isStart /\ ~inPath
                  /\ ~IsFailed(nodeId) /\ isRevealed
             /\ state = "hidden" <=>
                  /\ ~isTarget /\ ~isCurrent /\ ~isStart /\ ~inPath
                  /\ ~IsFailed(nodeId) /\ ~isRevealed
             /\ state \in {"target", "current", "start", "path", "failed",
                           "revealed", "hidden"}

\* A session two hops in whose tail was a failed guess before it was put on
\* the path: it shows as 'current', the node before it as 'path'.
C20_Witness ==
  /\ gameState.phase = "playing"
  /\ Len(gameState.path) = 3
  /\ IsFailed(Last(gameState.path))
  /\ getNodeState(gameState, Last(gameState.path)) = "current"
  /\ getNodeState(gameState, gameState.path[2]) = "path"
  /\ getNodeState(gameState, gameState.path[1]) = "start"

(***************************************************************************)
(* Properties of the challenge generator (checked under SpecWide)          *)
(***************************************************************************)

\* The graph of WideGraphs: the path graph A-B-C-D-E with A = n5, B = n1,
\* C = n2, D = n3, E = n4.
PathGraph == CHOOSE g \in WideGraphs : TRUE

\* Example scenario 3: the challenges for the band [2,2] that start at A.
Scenario3 ==
  { c \in Challenges(PathGraph.nodes, buildAdjacencyList(PathGraph.links),
                     2, 2) : c.startArtist = Eve }

\* The challenge is a shortest walk of the adjacency index adj from its
\* start to its target, with a hop count inside the band [lo, hi].
WellFormedChallenge(c, adj, lo, hi) ==
  /\ Len(c.optimalPath) >= 1
  /\ c.optimalPath[1] = c.startArtist.id
  /\ Last(c.optimalPath) = c.targetArtist.id
  /\ Len(c.optimalPath) = c.optimalHops + 1
  /\ \A i \in 1..(Len(c.optimalPath) - 1) :
       c.optimalPath[i + 1] \in Neighbours(adj, c.optimalPath[i])
  /\ c.targetArtist.id \in Within(adj, c.startArtist.id, c.optimalHops)
  /\ c.optimalHops > 0 =>
       c.targetArtist.id \notin Within(adj, c.startArtist.id, c.optimalHops - 1)
  /\ c.optimalHops >= lo
  /\ c.optimalHops <= hi

\* C21: every challenge the generator can return, and the challenge a session
\* past idle holds, is a shortest walk from start to target whose hop count
\* is the breadth-first distance and lies in [minHops, maxHops]; on the path
\* graph A-B-C-D-E with the band [2,2] the only challenge that starts at A
\* has target C and optimalPath [A,B,C].
C21_ChallengeIsShortestWalk ==
  /\ \A c \in generateChallenge :
       WellFormedChallenge(c, adjacency, minHops, maxHops)
  /\ gameState.phase # "idle" =>
       WellFormedChallenge(
         [startArtist |-> gameState.startArtist,
          targetArtist |-> gameState.targetArtist,
          optimalPath |-> gameState.optimalPath,
          optimalHops |-> gameState.optimalHops],
         adjacency, minHops, maxHops)
  /\ Scenario3 =
       { [startArtist |-> Eve, targetArtist |-> Bob,
          optimalPath |-> <<"n5", "n1", "n2">>, optimalHops |-> 2] }

\* A session holding a challenge of four hops, the longest of the graph.
C21_Witness ==
  /\ gameState.phase = "setup"
  /\ gameState.optimalHops = 4
  /\ Len(gameState.optimalPath) = 5
  /\ gameState.startArtist = Eve
  /\ gameState.targetArtist = Dee

(***************************************************************************)
(* Properties of the resampling loop (checked under SpecGen)               *)
(***************************************************************************)

\* No two nodes of the graph are at a distance inside [minHops, maxHops].
NoPairInBand == \A i \in DOMAIN graphData.nodes : ChallengesFrom(i) = {}

\* C22: a generateChallenge call returns: it makes at most MaxAttempts
\* attempts, and when no start/target pair with a distance in
\* [minHops, maxHops] was found within them it returns null; on a graph
\* without such a pair it returns null after exactly MaxAttempts attempts.
C22_GeneratorTerminates ==
  /\ <>(gen.pc = "done")
  /\ [](gen.attempts <= MaxAttempts /\ Len(gen.tried) = gen.attempts)
  /\ [](gen.pc = "done" =>
          IF gen.result = NullChallenge
          THEN /\ gen.attempts = MaxAttempts
               /\ \A k \in DOMAIN gen.tried :
                    \A i \in DOMAIN graphData.nodes :
                      graphData.nodes[i].id = gen.tried[k]
                        => ChallengesFrom(i) = {}
          ELSE WellFormedChallenge(gen.result,
                                   buildAdjacencyList(graphData.links),
                                   minHops, maxHops))
  /\ [](gen.pc = "done" /\ NoPairInBand => gen.result = NullChallenge)

\* A call that returned null on the graph of two components of diameter 1,
\* having sampled a start in each of them.
C22_Witness ==
  /\ gen.pc = "done"
  /\ gen.result = NullChallenge
  /\ gen.attempts = MaxAttempts
  /\ Len(graphData.nodes) = 4
  /\ Len(graphData.links) = 2
  /\ "n1" \in Range(gen.tried)
  /\ "n3" \in Range(gen.tried)

(***************************************************************************)
(* Further properties of artistsToGraphData (checked under SpecBuild)      *)
(***************************************************************************)

\* Example scenario 2: the candidates are (A-B,3), (A-C,2), (B-C,2).
Scenario2 ==
  MakeArtists(<<"A", "B", "C">>,
              << <<"rock", "pop", "jazz">>, <<"rock", "pop", "jazz">>,
                 <<"rock", "pop">> >>)

\* The two ids are in the same union-find component of p.
SameRoot(p, a, b) == FindRoot(p, a) = FindRoot(p, b)

\* C23: a step of the connectivity phase whose candidate link joins two
\* components and has an endpoint with cap accepted links accepts nothing
\* and merges nothing; in scenario 2 under cap 1 the candidates are taken in
\* the order A-B, A-C, B-C, only A-B is accepted and C is not returned.
C23_SaturatedBridgeSkipped ==
  [][ /\ ( /\ bpc = "phase1"
           /\ idx <= Len(allPotentialLinks)
           /\ ~SameRoot(parent, allPotentialLinks[idx].source,
                        allPotentialLinks[idx].target)
           /\ \/ Degree(links, allPotentialLinks[idx].source) >= cap
              \/ Degree(links, allPotentialLinks[idx].target) >= cap
           /\ Phase1Step )
         => /\ links' = links
            /\ connectionCount' = connectionCount
            /\ addedLinks' = addedLinks
            /\ \A a, b \in ArtistIds(artists) :
                 SameRoot(parent', a, b) <=> SameRoot(parent, a, b)
      /\ (bpc' = "done" /\ artists' = Scenario2 /\ cap' = 1)
         => /\ [k \in DOMAIN allPotentialLinks' |->
                  <<allPotentialLinks'[k].source, allPotentialLinks'[k].target,
                    allPotentialLinks'[k].value>>]
               = << <<"A", "B", 3>>, <<"A", "C", 2>>, <<"B", "C", 2>> >>
            /\ [k \in DOMAIN links' |-> <<links'[k].source, links'[k].target>>]
               = << <<"A", "B">> >>
            /\ nodes' = <<"A", "B">> ]_vars

\* Scenario 2 has been built under cap 1.
C23_Witness ==
  /\ bpc = "done"
  /\ artists = Scenario2
  /\ cap = 1
  /\ Len(allPotentialLinks) = 3
  /\ Len(links) = 1
  /\ "C" \notin Range(nodes)

\* C27: artistsToGraphData called with no list, an empty list or a list of
\* one artist returns: it comes to its end with no nodes and no links.
C27_EmptyInputEmptyGraph ==
  /\ (~artistsGiven \/ Len(artists) <= 1)
       => /\ links = << >>
          /\ nodes = << >>
          /\ bpc # "done" => ENABLED BuilderNext
  /\ (~artistsGiven \/ Len(artists) = 0)
       => bpc \in {"start", "done"}

\* The call with one artist that has genres has returned the empty graph.
C27_Witness ==
  /\ bpc = "done"
  /\ artistsGiven
  /\ Len(artists) = 1
  /\ Len(artists[1].genres) > 0
  /\ nodes = << >>
  /\ links = << >>

\* The ids joined to an id of S by a path of links of ls.
RECURSIVE Joined(_, _)
Joined(ls, S) ==
  LET T == S \cup {ls[i].target : i \in {k \in DOMAIN ls : ls[k].source \in S}}
             \cup {ls[i].source : i \in {k \in DOMAIN ls : ls[k].target \in S}}
  IN  IF T = S THEN S ELSE Joined(ls, T)

\* C29: at every step of the connectivity phase two ids have the same
\* union-find root exactly when a path of the links accepted so far joins
\* them, and the accepted links form a forest: there are n minus the number
\* of components of them, which no set of links with a cycle attains, and at
\* most n - 1.
C29_RootsAreComponents ==
  bpc = "phase1" =>
    LET ids == ArtistIds(artists)
        comp == [a \in ids |-> Joined(links, {a})]
        root == [a \in ids |-> FindRoot(parent, a)]
    IN  /\ \A a, b \in ids : root[a] = root[b] <=> b \in comp[a]
        /\ Len(links) = Cardinality(ids) - Cardinality({comp[a] : a \in ids})
        /\ Len(links) <= Cardinality(ids) - 1

\* The connectivity phase has taken its last candidate with three links
\* accepted over four artists in one component.
C29_Witness ==
  /\ bpc = "phase1"
  /\ idx > Len(allPotentialLinks)
  /\ Len(artists) = 4
  /\ Len(links) = 3
  /\ \A a, b \in ArtistIds(artists) : SameRoot(parent, a, b)

\* Candidate link c is among the accepted links.
Accepted(c) == \E k \in DOMAIN links : links[k] = c

\* Artist x has cap accepted links.
Saturated(x) == Degree(links, x) = cap

\* The ids that share a candidate link with x.
Partners(x) ==
  {y \in ArtistIds(artists) :
     \E k \in DOMAIN allPotentialLinks :
       {allPotentialLinks[k].source, allPotentialLinks[k].target} = {x, y}}

\* C28: in the returned graph every candidate link that was not accepted
\* has an endpoint with exactly cap accepted links, and an artist that has a
\* candidate partner is dropped only when all its partners have cap accepted
\* links.
C28_MaximalUnderCap ==
  (bpc = "done" /\ artistsGiven /\ Len(artists) > 0) =>
    /\ \A k \in DOMAIN allPotentialLinks :
         ~Accepted(allPotentialLinks[k]) =>
           \/ Saturated(allPotentialLinks[k].source)
           \/ Saturated(allPotentialLinks[k].target)
    /\ \A x \in ArtistIds(artists) :
         (Partners(x) # {} /\ x \notin Range(nodes)) =>
           \A y \in Partners(x) : Saturated(y)

\* No two candidate links have the same key.
KeysDistinct ==
  \A k1, k2 \in DOMAIN allPotentialLinks :
    LinkKey(allPotentialLinks[k1]) = LinkKey(allPotentialLinks[k2]) => k1 = k2

\* The returned graph is maximal under the cap when no two candidate links
\* have the same key.
MaximalWhenKeysDistinct == KeysDistinct => C28_MaximalUnderCap

\* C30: when every artist has at most cap candidate partners, every
\* candidate link is accepted, the returned nodes are the artists with a
\* partner, and the returned graph has the components of the candidate
\* links.
C30_AllCandidatesAccepted ==
  ( /\ bpc = "done"
    /\ Len(artists) > 0
    /\ \A x \in ArtistIds(artists) : Cardinality(Partners(x)) <= cap )
  => /\ \A k \in DOMAIN allPotentialLinks : Accepted(allPotentialLinks[k])
     /\ Range(nodes) = {x \in ArtistIds(artists) : Partners(x) # {}}
     /\ \A a \in Range(nodes) :
          Joined(links, {a}) = Joined(allPotentialLinks, {a})

\* Every candidate link is accepted under the condition of C30 when no two
\* candidate links have the same key.
AllAcceptedWhenKeysDistinct == KeysDistinct => C30_AllCandidatesAccepted

(***************************************************************************)
(* Properties of exitGame (checked under Spec) and of a replaced graph     *)
(* (checked under SpecReplace)                                             *)
(***************************************************************************)

\* C24: exitGame called in any phase stores phase idle, mode relaxed, no
\* start, target or optimal path, an empty path and pathArtists, hops 0, no
\* revealed artist, no failed guess, guessCount 0, hintCount 0,
\* hintSelectionActive false, startTime, endTime and lastGuessResult null.
C24_ExitGameResets ==
  [][ ExitGame =>
        /\ gameState'.phase = "idle"
        /\ gameState'.mode = "relaxed"
        /\ gameState'.startArtist = NullArtist
        /\ gameState'.targetArtist = NullArtist
        /\ gameState'.optimalPath = << >>
        /\ gameState'.optimalHops = 0
        /\ gameState'.currentArtist = NullArtist
        /\ gameState'.path = << >>
        /\ gameState'.pathArtists = << >>
        /\ gameState'.hops = 0
        /\ gameState'.revealedArtists = {}
        /\ gameState'.failedGuesses = << >>
        /\ gameState'.guessCount = 0
        /\ gameState'.hintCount = 0
        /\ gameState'.hintSelectionActive = FALSE
        /\ gameState'.startTime = Null
        /\ gameState'.endTime = Null
        /\ gameState'.lastGuessResult = NullResult ]_vars

\* A competitive session one hop in, with a failed guess, a hint taken and
\* hint selection on, which exitGame resets.
C24_Witness ==
  /\ gameState.phase = "playing"
  /\ gameState.mode = "competitive"
  /\ Len(gameState.path) = 2
  /\ Len(gameState.failedGuesses) = 1
  /\ gameState.guessCount = 2
  /\ gameState.hintCount = 1
  /\ gameState.hintSelectionActive
  /\ gameState.lastGuessResult # NullResult
  /\ exitGame(gameState) = InitialGameState

\* C25: when graphData is replaced while the session is in setup, playing or
\* complete, the session is reset to idle or holds a challenge generated on
\* the new graph: it does not keep the challenge of the old graph.
C25_ChallengeFollowsGraph ==
  [][ ( /\ graphData' # graphData
        /\ gameState.phase \in {"setup", "playing", "complete"} )
      => \/ gameState'.phase = "idle"
         \/ /\ gameState'.phase = "setup"
            /\ \E c \in ChallengeMemo[graphData'] :
                 /\ gameState'.startArtist = c.startArtist
                 /\ gameState'.targetArtist = c.targetArtist
                 /\ gameState'.optimalPath = c.optimalPath ]_vars

(***************************************************************************)
(* submitGuess between renders (checked under SpecStale)                   *)
(***************************************************************************)

\* The call submitGuess(guess) of the handler of the last render is accepted.
StaleAccepted(guess) ==
  /\ submitGuessType(rendered, guess) \in {"connected", "complete"}
  /\ StaleSubmitGuess(guess)

\* C26: submitGuess decides on the session it was created with and writes
\* the path computed from it: an accepted call stores that snapshot's path
\* plus the guess and adds 1 to the stored guessCount, so a second accepted
\* call on the same snapshot replaces the first call's append while both are
\* counted; a call whose snapshot is the stored session keeps every element
\* of the stored path.
C26_SubmitGuessReadThenWrite ==
  [][ \A guess \in GuessInputs :
        StaleAccepted(guess) =>
          LET id == resolveGuess(trim(guess)).id
          IN  /\ gameState'.path = Append(rendered.path, id)
              /\ gameState'.guessCount = gameState.guessCount + 1
              /\ gameState'.revealedArtists =
                   gameState.revealedArtists \cup {id}
              /\ \A other \in Range(gameState.path) :
                   ( /\ gameState.path = Append(rendered.path, other)
                     /\ other # id )
                   => /\ ~includes(gameState'.path, other)
                      /\ gameState.guessCount = rendered.guessCount + 1
                           => gameState'.guessCount = rendered.guessCount + 2
              /\ rendered = gameState
                   => /\ Len(gameState'.path) = Len(gameState.path) + 1
                      /\ \A i \in DOMAIN gameState.path :
                           gameState'.path[i] = gameState.path[i] ]_vars

\* Two accepted guesses on the snapshot with path [n1]: both are counted and
\* revealed, the path holds the second one only.
C26_Witness ==
  /\ gameState.phase = "playing"
  /\ rendered.phase = "playing"
  /\ rendered.path = <<"n1">>
  /\ rendered.guessCount = 0
  /\ gameState.path = <<"n1", "n2">>
  /\ gameState.guessCount = 2
  /\ gameState.failedGuesses = << >>
  /\ gameState.hintCount = 0
  /\ "n5" \in gameState.revealedArtists

(***************************************************************************)
(* Invariants of the session (checked under Spec)                          *)
(***************************************************************************)

InGame == gameState.phase \in {"playing", "complete"}

\* C31: in playing and complete, hops is the length of path minus 1,
\* pathArtists has the length of path and holds the node of each id of path,
\* and currentArtist is the node of the last id of path.
C31_PathBookkeeping ==
  InGame =>
    /\ gameState.hops = Len(gameState.path) - 1
    /\ Len(gameState.pathArtists) = Len(gameState.path)
    /\ \A i \in DOMAIN gameState.path :
         /\ gameState.pathArtists[i].id = gameState.path[i]
         /\ gameState.pathArtists[i] = nodeMapGet(gameState.path[i])
    /\ Len(gameState.path) > 0
    /\ gameState.currentArtist # NullArtist
    /\ gameState.currentArtist.id = Last(gameState.path)
    /\ gameState.currentArtist = nodeMapGet(Last(gameState.path))

\* A path of two ids that a goBackTo cut from a longer one.
C31_Witness ==
  /\ SteppedBack
  /\ Len(gameState.path) = 2
  /\ gameState.hops = 1
  /\ gameState.guessCount = 2
  /\ gameState.failedGuesses = << >>

\* C32: in playing and complete, path is not empty, starts at the start
\* node of the challenge and holds no id twice.
C32_PathStartsAtStartNoRepeat ==
  InGame =>
    /\ Len(gameState.path) >= 1
    /\ gameState.startArtist # NullArtist
    /\ gameState.path[1] = gameState.startArtist.id
    /\ \A i, j \in DOMAIN gameState.path :
         gameState.path[i] = gameState.path[j] => i = j

\* A node that was taken off the path by goBackTo, and an accepted guess
\* after it.
C32_Witness ==
  /\ SteppedBack
  /\ Len(gameState.path) = 2
  /\ gameState.guessCount = 3
  /\ gameState.lastGuessResult.type = "connected"

\* C33: in complete the last id of path is the target and endTime is set;
\* in playing the target is not in path.
C33_TargetEndsPath ==
  /\ gameState.phase = "complete" =>
       /\ Len(gameState.path) >= 1
       /\ Last(gameState.path) = gameState.targetArtist.id
       /\ gameState.endTime # Null
  /\ gameState.phase = "playing" =>
       /\ gameState.targetArtist # NullArtist
       /\ ~includes(gameState.path, gameState.targetArtist.id)

\* The game completed along the path of the challenge.
C33_Witness ==
  /\ gameState.phase = "complete"
  /\ gameState.path = gameState.optimalPath
  /\ Len(gameState.path) = 4
  /\ gameState.endTime = Timestamp
  /\ gameState.lastGuessResult.type = "complete"

\* C34 as stated: hintSelectionActive is true only in phase playing.
C34_HintSelectionOnlyInPlaying ==
  gameState.hintSelectionActive => gameState.phase = "playing"

\* C34: every step leads to a state in which hintSelectionActive is false
\* when the phase is idle or setup; the flag is switched on only by a step
\* from playing to playing; and the step that stores complete leaves the
\* flag as it was, so it is true in complete when the completing guess was
\* made while hint selection was on.
C34_HintSelectionSwitchedOnInPlaying ==
  [][ /\ gameState'.phase \in {"idle", "setup"}
         => ~gameState'.hintSelectionActive
      /\ (gameState'.hintSelectionActive /\ ~gameState.hintSelectionActive)
         => /\ gameState.phase = "playing"
            /\ gameState'.phase = "playing"
      /\ (gameState.phase = "playing" /\ gameState'.phase = "complete")
         => gameState'.hintSelectionActive = gameState.hintSelectionActive
    ]_vars

\* The game completed by a guess made while hint selection was on.
C34_Witness ==
  /\ gameState.phase = "complete"
  /\ gameState.hintSelectionActive
  /\ gameState.lastGuessResult.type = "complete"

\* The ids of the nodes recorded in failedGuesses.
FailedIds(gs) ==
  {gs.failedGuesses[i].artist.id : i \in DOMAIN gs.failedGuesses}

\* C35: in playing and complete every id of path, the start, the target and
\* every node recorded in failedGuesses is in revealedArtists.
C35_ShownNodesRevealed ==
  InGame =>
    /\ Range(gameState.path) \subseteq gameState.revealedArtists
    /\ gameState.startArtist.id \in gameState.revealedArtists
    /\ gameState.targetArtist.id \in gameState.revealedArtists
    /\ FailedIds(gameState) \subseteq gameState.revealedArtists

\* The step is one of beginPlaying.
BeginPlayingStep ==
  gameState.startArtist # NullArtist /\ gameState' = beginPlaying(gameState)

\* The path, the start and the target are revealed in playing and complete,
\* and a step within playing and complete other than beginPlaying takes
\* nothing out of revealedArtists and keeps the failed guesses revealed.
RevealedOnlyGrows ==
  [][ /\ (gameState'.phase \in {"playing", "complete"}) =>
           /\ Range(gameState'.path) \subseteq gameState'.revealedArtists
           /\ gameState'.startArtist.id \in gameState'.revealedArtists
           /\ gameState'.targetArtist.id \in gameState'.revealedArtists
      /\ ( /\ InGame
           /\ gameState'.phase \in {"playing", "complete"}
           /\ ~BeginPlayingStep )
         => /\ gameState.revealedArtists \subseteq gameState'.revealedArtists
            /\ (FailedIds(gameState) \subseteq gameState.revealedArtists) =>
                 (FailedIds(gameState') \subseteq gameState'.revealedArtists) ]_vars

\* Guesses that are null, empty or blank.
BlankGuesses == {Null, "", "  "}

\* C36: outside playing, submitGuess, goBackTo, beginHintSelection and
\* revealHintNode return null or false and leave the session as it is; in
\* playing, revealHintNode with hint selection off or with an id that is not
\* a node, and submitGuess with a null, empty or blank guess, return null and
\* leave the session, guessCount included, as it is.
C36_RejectedCallsChangeNothing ==
  /\ gameState.phase # "playing" =>
       /\ \A guess \in GuessInputs \cup BlankGuesses :
            /\ submitGuessType(gameState, guess) = "null"
            /\ submitGuess(gameState, gameState, guess) = gameState
       /\ \A id \in ClickIds :
            /\ ~goBackToValid(gameState, id)
            /\ goBackTo(gameState, gameState, id) = gameState
            /\ revealHintNodeType(gameState, id) = "null"
            /\ revealHintNode(gameState, gameState, id) = gameState
       /\ ~beginHintSelectionReturn(gameState)
       /\ beginHintSelection(gameState, gameState) = gameState
  /\ gameState.phase = "playing" =>
       /\ \A id \in ClickIds :
            (~gameState.hintSelectionActive \/ ~nodeMapHas(id)) =>
              /\ revealHintNodeType(gameState, id) = "null"
              /\ revealHintNode(gameState, gameState, id) = gameState
       /\ \A guess \in BlankGuesses :
            /\ submitGuessType(gameState, guess) = "null"
            /\ ~Counted(submitGuessType(gameState, guess))
            /\ submitGuess(gameState, gameState, guess) = gameState

\* A completed game of three hops, on which the four handlers are called
\* with ids of the path.
C36_Witness ==
  /\ gameState.phase = "complete"
  /\ Len(gameState.path) = 4
  /\ gameState.guessCount = 3
  /\ goBackTo(gameState, gameState, gameState.path[1]) = gameState
  /\ submitGuess(gameState, gameState, gameState.path[2]) = gameState

\* The session after goBackTo(start), called when the tail is not the start.
BackAtStart(gs) ==
  IF Last(gs.path) = gs.startArtist.id THEN gs
  ELSE goBackTo(gs, gs, gs.startArtist.id)

\* The session after submitGuess of ids[k], ids[k + 1], ... in order, each
\* call made on the session the one before stored.
RECURSIVE GuessAlong(_, _, _)
GuessAlong(gs, ids, k) ==
  IF k > Len(ids) THEN gs
  ELSE GuessAlong(submitGuess(gs, gs, ids[k]), ids, k + 1)

\* Each of these calls is accepted: connected, and complete for the last.
RECURSIVE AcceptedAlong(_, _, _)
AcceptedAlong(gs, ids, k) ==
  \/ k > Len(ids)
  \/ /\ submitGuessType(gs, ids[k])
          = (IF k = Len(ids) THEN "complete" ELSE "connected")
     /\ AcceptedAlong(submitGuess(gs, gs, ids[k]), ids, k + 1)

\* C37: from every state with phase playing, goBackTo(start) when the tail
\* is not the start, then submitGuess of the second to the last id of
\* optimalPath, are all accepted and store phase complete with the optimal
\* path as path.
C37_CompleteStaysReachable ==
  gameState.phase = "playing" =>
    LET back == BackAtStart(gameState)
        end == GuessAlong(back, gameState.optimalPath, 2)
    IN  /\ back.phase = "playing"
        /\ back.path = <<gameState.startArtist.id>>
        /\ Len(gameState.optimalPath) >= 2
        /\ AcceptedAlong(back, gameState.optimalPath, 2)
        /\ end.phase = "complete"
        /\ end.path = gameState.optimalPath

\* A game one hop in after a hint and a failed guess of the hinted node.
C37_Witness ==
  /\ gameState.phase = "playing"
  /\ Len(gameState.path) = 2
  /\ Len(gameState.failedGuesses) = 1
  /\ gameState.hintCount = 1
  /\ gameState.guessCount = 2
  /\ GuessAlong(BackAtStart(gameState), gameState.optimalPath, 2).phase
       = "complete"

(***************************************************************************)
(* Properties of useLastFmData (checked under SpecLastFm and               *)
(* SpecLastFmPlain)                                                        *)
(***************************************************************************)

\* What the hook returns.
Shown(lf) == <<lf.artists, lf.graphData, lf.isLoading, lf.error, lf.progress>>

\* In this step a load whose effect had been cleaned up before makes a move.
CleanedUpLoadMoves ==
  \E i \in DOMAIN lastfm.loads :
    /\ lastfm.loads[i].cleanedUp
    /\ lastfm'.loads[i] # lastfm.loads[i]

\* The data, the error and the progress text shown are empty or of the
\* current username, and isLoading is shown only while the load of the
\* current effect is fetching.
ShownBelongsToUsername(lf) ==
  /\ lf.artists \in {Null, lf.username}
  /\ lf.graphData \in {Null, lf.username}
  /\ lf.error \in {Null, lf.username}
  /\ lf.progress \in {Null, lf.username}
  /\ lf.mounted /\ lf.isLoading =>
       \E i \in DOMAIN lf.loads :
         /\ ~lf.loads[i].cleanedUp
         /\ lf.loads[i].user = lf.username
         /\ lf.loads[i].pc = "fetching"

\* C38: a load whose effect has been cleaned up writes neither the hook
\* state nor the cache, whatever the order in which the fetches complete,
\* and the state shown always belongs to the current username.
C38_CleanedUpLoadWritesNothing ==
  [][ /\ CleanedUpLoadMoves =>
           /\ Shown(lastfm') = Shown(lastfm)
           /\ lastfm'.cache = lastfm.cache
      /\ ShownBelongsToUsername(lastfm') ]_vars

\* The writes of a cleaned-up load alone.
CleanedUpLoadIsSilent ==
  [][ CleanedUpLoadMoves =>
        /\ Shown(lastfm') = Shown(lastfm)
        /\ lastfm'.cache = lastfm.cache ]_vars

\* The username went from a to b while the load for a was fetching, the
\* load for b has completed and the load for a has completed after it.
OldLoadCompletedLast ==
  /\ lastfm.username = "b"
  /\ Len(lastfm.loads) = 2
  /\ lastfm.loads[1].user = "a" /\ lastfm.loads[1].pc = "done"
  /\ lastfm.loads[2].user = "b" /\ lastfm.loads[2].pc = "done"
  /\ lastfm.mounted

(***************************************************************************)
(* Properties of useSpotifyAuth (checked under SpecAuth)                   *)
(***************************************************************************)

\* Run i waited for the marker and came to the end of handleAuth.
WaitedToTheEnd(i) ==
  /\ i \in DOMAIN auth.runs
  /\ auth.runs[i].pc = "done"
  /\ auth.runs[i].waited > 0
  /\ ~auth.runs[i].cancelled

\* C39: over the runs of the auth effect for one callback code,
\* exchangeCodeForToken is called at most once; the processing marker is
\* set only while the exchange is pending, so it is removed when the
\* exchange resolves or rejects; a run that waits for the marker and is not
\* cancelled sets isLoading to false in the end, and it has set the token
\* when it found the token the exchange had stored.
C39_SecondRunWaitsAndFinishes ==
  /\ [](auth.exchanges <= 1)
  /\ [](auth.processing <=>
          \E i \in DOMAIN auth.runs : auth.runs[i].pc = "exchanging")
  /\ [](\A i \in DOMAIN auth.runs :
          WaitedToTheEnd(i) =>
            /\ ~auth.isLoading
            /\ auth.runs[i].existingToken = "new" => auth.token = "new")
  /\ \A i \in 1..MaxRuns :
       (i \in DOMAIN auth.runs /\ auth.runs[i].pc = "waiting")
         ~> (/\ i \in DOMAIN auth.runs
             /\ \/ auth.runs[i].cancelled
                \/ WaitedToTheEnd(i) /\ ~auth.isLoading)

\* The first run was cleaned up with its exchange pending, the exchange
\* resolved while the second run waited, and the second run has finished.
C39_Witness ==
  /\ Len(auth.runs) = 2
  /\ auth.runs[1].cancelled /\ auth.runs[1].pc = "done"
  /\ WaitedToTheEnd(2)
  /\ auth.runs[2].existingToken = "new"
  /\ auth.token = "new"
  /\ auth.exchanges = 1
  /\ ~auth.processing
  /\ ~auth.isLoading

\* The run that ends its wait uncancelled reads the stored token and sets
\* it; the token of the exchange is stored by ExchangeOk alone.
WaitEndReadsExchangeResult ==
  [][ \A i \in DOMAIN auth.runs :
        (auth.runs[i].pc = "waiting" /\ ~auth.runs[i].cancelled
           /\ auth'.runs[i].pc = "done")
          => /\ auth'.runs[i].existingToken = auth.stored
             /\ ~auth'.isLoading
             /\ auth.stored = "new" => auth'.token = "new" ]_vars

====
